---- MODULE Spec2Model ----
(***************************************************************************)
(* Verification model of the simulation and risk-control kernel of         *)
(* AlgoTrader KR: RiskManager (src/src/core/risk_manager.py), the          *)
(* BacktestEngine day loop (src/src/backtest/engine.py) and the StatArb    *)
(* pair state machine (src/src/strategies/stat_arb.py).                    *)
(*                                                                         *)
(* Money and prices are integers.  The code computes ratios in floating    *)
(* point (x / total * 100 <= limit); the model compares the same ratios    *)
(* exactly by cross-multiplication, so rounding is outside the model.      *)
(***************************************************************************)
EXTENDS Integers, Sequences, FiniteSets, TLC

VARIABLES
    rm,         \* a RiskManager instance: mode, kill switch, allocation, RiskState
    call,       \* the last can_open_position call: arguments and returned value
    price_data, \* run(price_data): code -> frame, a sequence of rows [date, close]
    run,        \* the arguments of one backtest: start_date, frame layout, capital
    eng,        \* a BacktestEngine: cash, positions, ledgers, its RiskManager, position in run()
    twin,       \* a second backtest over a history that differs only after a date
    live,       \* live trading: the registered strategy and the cycle's signals
    store       \* the kill-switch file and the last switch call that returned

vars == <<rm, call, price_data, run, eng, twin, live, store>>

(***************************************************************************)
(* Risk configuration (config["risk"]), values of the test configuration.  *)
(***************************************************************************)
max_position_pct == 10
stop_loss_pct == -7
daily_loss_limit_pct == -2
max_drawdown_pct == -10
min_cash_pct == 20
\* max_positions is 10 in the test configuration; the model keeps the list short.
max_positions == 2

(***************************************************************************)
(* Position and RiskState                                                  *)
(***************************************************************************)
\* Position.market_value
market_value(p) == p.current_price * p.quantity

\* Sum of f over a sequence of positions
RECURSIVE SumSeq(_)
SumSeq(s) == IF s = <<>> THEN 0 ELSE Head(s) + SumSeq(Tail(s))

\* RiskState.drawdown_pct <= x, for the ratio (total_equity - peak) / peak * 100;
\* the property returns 0.0 when peak_equity is 0.
DrawdownPctLeq(st, x) ==
    IF st.peak_equity = 0 THEN 0 <= x
    ELSE IF st.peak_equity > 0
         THEN (st.total_equity - st.peak_equity) * 100 <= x * st.peak_equity
         ELSE (st.total_equity - st.peak_equity) * 100 >= x * st.peak_equity

\* RiskState() as constructed by RiskManager.__init__
NewRiskState ==
    [total_equity |-> 0, cash |-> 0, daily_pnl |-> 0, peak_equity |-> 0,
     positions |-> <<>>]

(***************************************************************************)
(* RiskManager: per-strategy capital allocation helpers.                   *)
(* strategy_allocation maps a strategy name to a percentage of the pool    *)
(* (0.30 in the configuration is 30 here); NoAlloc is the empty dict.      *)
(***************************************************************************)
NoAlloc == [s \in {} |-> 0]

\* _get_strategy_budget is not None
HasBudget(r, strategy) ==
    /\ DOMAIN r.strategy_allocation # {}
    /\ strategy # ""
    /\ strategy \in DOMAIN r.strategy_allocation

\* _get_strategy_budget, times 100: (total_equity + cash) * pct
StrategyBudget100(r, strategy) ==
    (r.state.total_equity + r.state.cash) * r.strategy_allocation[strategy]

\* _get_strategy_used
StrategyUsed(r, strategy) ==
    SumSeq([i \in 1..Len(r.state.positions) |->
              IF r.state.positions[i].strategy = strategy
              THEN market_value(r.state.positions[i]) ELSE 0])

(***************************************************************************)
(* The seven reject conditions of can_open_position, as the code tests     *)
(* them.  total is total_equity + cash (line 146).                         *)
(***************************************************************************)
Total(r) == r.state.total_equity + r.state.cash

KillSwitchHit(r) == r.kill_switch

DailyLossHit(r) ==
    /\ Total(r) > 0
    /\ r.state.daily_pnl * 100 <= daily_loss_limit_pct * Total(r)

DrawdownHit(r) == DrawdownPctLeq(r.state, max_drawdown_pct)

PositionCountHit(r) == Len(r.state.positions) >= max_positions

ConcentrationHit(r, mv) ==
    /\ Total(r) > 0
    /\ mv * 100 > max_position_pct * Total(r)

CashBufferHit(r, mv) ==
    /\ Total(r) > 0
    /\ (r.state.cash - mv) * 100 < min_cash_pct * Total(r)

BudgetHit(r, mv, strategy) ==
    /\ HasBudget(r, strategy)
    /\ (StrategyUsed(r, strategy) + mv) * 100 > StrategyBudget100(r, strategy)

\* The values can_open_position produces: (True, "OK"), (False, reason) with the
\* reason named after its check, or the exception raised instead of a return.
Accept == "OK"
RejectReasons == <<"KILL_SWITCH", "DAILY_LOSS", "MAX_DRAWDOWN", "MAX_POSITIONS",
                   "CONCENTRATION", "CASH_BUFFER", "STRATEGY_BUDGET">>
Raised == "UnboundLocalError"

\* A ladder that tests the position count before the drawdown.
CanOpenPositionSwapped(r, mv, strategy) ==
    IF ~r.backtest_mode /\ KillSwitchHit(r) THEN "KILL_SWITCH"
    ELSE IF ~r.backtest_mode /\ DailyLossHit(r) THEN "DAILY_LOSS"
    ELSE IF PositionCountHit(r) THEN "MAX_POSITIONS"
    ELSE IF ~r.backtest_mode /\ DrawdownHit(r) THEN "MAX_DRAWDOWN"
    ELSE IF r.backtest_mode THEN Raised
    ELSE IF ConcentrationHit(r, mv) THEN "CONCENTRATION"
    ELSE IF CashBufferHit(r, mv) THEN "CASH_BUFFER"
    ELSE IF BudgetHit(r, mv, strategy) THEN "STRATEGY_BUDGET"
    ELSE Accept

\* RiskManager.can_open_position.  The local `total` is assigned only inside
\* `if not self.backtest_mode:` (line 146); in backtest mode the first read of it
\* (line 161, reached when the position count passes) raises UnboundLocalError.
CanOpenPosition(r, mv, strategy) ==
    IF ~r.backtest_mode /\ KillSwitchHit(r) THEN "KILL_SWITCH"
    ELSE IF ~r.backtest_mode /\ DailyLossHit(r) THEN "DAILY_LOSS"
    ELSE IF ~r.backtest_mode /\ DrawdownHit(r) THEN "MAX_DRAWDOWN"
    ELSE IF PositionCountHit(r) THEN "MAX_POSITIONS"
    ELSE IF r.backtest_mode THEN Raised
    ELSE IF ConcentrationHit(r, mv) THEN "CONCENTRATION"
    ELSE IF CashBufferHit(r, mv) THEN "CASH_BUFFER"
    ELSE IF BudgetHit(r, mv, strategy) THEN "STRATEGY_BUDGET"
    ELSE Accept

(***************************************************************************)
(* RiskManager: position sizing, stop loss, position list, equity.         *)
(***************************************************************************)
\* int(): truncation toward zero, for a positive divisor
Trunc(n, d) == IF n >= 0 THEN n \div d ELSE -((-n) \div d)

Max(a, b) == IF a >= b THEN a ELSE b

\* config initial_capital that calculate_position_size falls back to when
\* total_equity + cash is 0
fallback_capital == 10000

\* RiskManager.calculate_position_size.  target_value is kept times 1000:
\* total * (max_position_pct / 100) * 0.8 = total * max_position_pct * 8 / 1000.
\* calculate_position_size without the clamp to the strategy's remaining budget
CalculatePositionSizeUnclamped(r, price, strategy) ==
    LET total == IF Total(r) = 0 THEN fallback_capital ELSE Total(r)
        target1000 == total * max_position_pct * 8
    IN  IF price = 0 THEN 0
        ELSE IF price > 0 THEN Max(Trunc(target1000, 1000 * price), 0)
        ELSE Max(-Trunc(target1000, 1000 * (-price)), 0)

\* calculate_position_size returning int(target_value / price) as it is
CalculatePositionSizeSigned(r, price, strategy) ==
    LET total == IF Total(r) = 0 THEN fallback_capital ELSE Total(r)
        target1000 == total * max_position_pct * 8
        remaining1000 ==
            Max(Total(r) * r.strategy_allocation[strategy] * 10
                  - StrategyUsed(r, strategy) * 1000, 0)
        clamped1000 ==
            IF HasBudget(r, strategy) /\ target1000 > remaining1000
            THEN remaining1000 ELSE target1000
    IN  IF price = 0 THEN 0
        ELSE IF price > 0 THEN Trunc(clamped1000, 1000 * price)
        ELSE -Trunc(clamped1000, 1000 * (-price))

\* calculate_position_size, amounts times 1000: the target is sized on
\* total_equity + cash (the configured initial capital when that is 0), the
\* budget of _get_strategy_budget on total_equity + cash itself
CalculatePositionSize(r, price, strategy) ==
    LET total == IF Total(r) = 0 THEN fallback_capital ELSE Total(r)
        target1000 == total * max_position_pct * 8
        remaining1000 ==
            Max(Total(r) * r.strategy_allocation[strategy] * 10
                  - StrategyUsed(r, strategy) * 1000, 0)
        clamped1000 ==
            IF HasBudget(r, strategy) /\ target1000 > remaining1000
            THEN remaining1000 ELSE target1000
    IN  IF price = 0 THEN 0
        ELSE IF price > 0 THEN Max(Trunc(clamped1000, 1000 * price), 0)
        ELSE Max(-Trunc(clamped1000, 1000 * (-price)), 0)

\* Position.pnl_pct <= x
PnlPctLeq(p, x) ==
    IF p.entry_price = 0 THEN 0 <= x
    ELSE LET diff == IF p.side = "LONG" THEN p.current_price - p.entry_price
                     ELSE p.entry_price - p.current_price
         IN  IF p.entry_price > 0 THEN diff * 100 <= x * p.entry_price
             ELSE diff * 100 >= x * p.entry_price

\* RiskManager.check_stop_loss
CheckStopLoss(p) == PnlPctLeq(p, stop_loss_pct)

\* RiskManager.add_position
AddPosition(r, p) == [r EXCEPT !.state.positions = Append(@, p)]

\* RiskManager.remove_position
RemovePosition(r, code) ==
    [r EXCEPT !.state.positions = SelectSeq(@, LAMBDA p : p.code # code)]

\* RiskManager.update_prices; prices is a function code -> price
UpdatePrices(r, prices) ==
    [r EXCEPT !.state.positions =
        [i \in 1..Len(r.state.positions) |->
            IF r.state.positions[i].code \in DOMAIN prices
            THEN [r.state.positions[i] EXCEPT
                     !.current_price = prices[r.state.positions[i].code]]
            ELSE r.state.positions[i]]]

\* update_equity that overwrites the watermark
UpdateEquityNoWatermark(r, total_equity, cash) ==
    [r EXCEPT !.state.total_equity = total_equity,
              !.state.cash = cash,
              !.state.peak_equity = total_equity]

\* an update_equity that takes the first equity it sees as the peak for good
UpdateEquityFirstPeakOnly(r, total_equity, cash) ==
    [r EXCEPT !.state.total_equity = total_equity,
              !.state.cash = cash,
              !.state.peak_equity = IF @ = 0 THEN total_equity ELSE @]

\* RiskManager.update_equity
UpdateEquity(r, total_equity, cash) ==
    [r EXCEPT !.state.total_equity = total_equity,
              !.state.cash = cash,
              !.state.peak_equity =
                  IF total_equity > @ THEN total_equity ELSE @]

\* RiskManager.__init__: a fresh RiskState; the kill switch is what the store holds
NewRiskManager(backtest_mode, stored_kill_switch, allocation) ==
    [backtest_mode |-> backtest_mode, kill_switch |-> stored_kill_switch,
     strategy_allocation |-> allocation, state |-> NewRiskState]

(***************************************************************************)
(* The kill-switch file.  file is "absent", "active" or "inactive";        *)
(* last_call is the switch call that returned last, "" before the first.   *)
(***************************************************************************)
NoStore == [file |-> "absent", last_call |-> ""]

\* RiskManager._load_kill_switch; read_ok: the file was read and parsed
LoadKillSwitch(s, read_ok) == read_ok /\ s.file = "active"

\* RiskManager._save_kill_switch; write_ok: the write went through (a failure
\* is logged and swallowed)
SaveKillSwitch(s, active, write_ok) ==
    IF write_ok THEN [s EXCEPT !.file = IF active THEN "active" ELSE "inactive"] ELSE s

\* RiskManager.activate_kill_switch, on the instance and on the file
ActivateKillSwitch(r) == [r EXCEPT !.kill_switch = TRUE]
ActivateKillSwitchFile(s, write_ok) ==
    [SaveKillSwitch(s, TRUE, write_ok) EXCEPT !.last_call = "activate"]

\* RiskManager.deactivate_kill_switch, on the instance and on the file
DeactivateKillSwitch(r) == [r EXCEPT !.kill_switch = FALSE]
DeactivateKillSwitchFile(s, write_ok) ==
    [SaveKillSwitch(s, FALSE, write_ok) EXCEPT !.last_call = "deactivate"]

(***************************************************************************)
(* BacktestEngine: price frames, date index and the truncation caches.     *)
(* A frame is a sequence of rows [date, close]; dates are day numbers.     *)
(***************************************************************************)
MaxDays == 3
Dates == 1..MaxDays
NoDate == 0      \* start_date / end_date of None

\* the set of elements of a sequence
Range(s) == {s[i] : i \in 1..Len(s)}

\* sorted(set): the ascending sequence of a set of integers
RECURSIVE SortedSeq(_)
SortedSeq(S) ==
    IF S = {} THEN <<>>
    ELSE LET m == CHOOSE x \in S : \A y \in S : x <= y
         IN  <<m>> \o SortedSeq(S \ {m})

\* _build_date_index: the sorted union of every frame's dates, range-filtered
BuildDateIndex(pd, start_date, end_date) ==
    LET all == UNION {{pd[c][i].date : i \in 1..Len(pd[c])} : c \in DOMAIN pd}
        kept == {d \in all : /\ (start_date # NoDate => d >= start_date)
                             /\ (end_date # NoDate => d <= end_date)}
    IN  SortedSeq(kept)

\* _build_price_lookup / _get_day_prices: code -> close for the codes that have a
\* row dated `date` (a later row of the same date overwrites an earlier one)
GetDayPrices(pd, date) ==
    LET has(c) == \E i \in 1..Len(pd[c]) : pd[c][i].date = date
        last(c) == CHOOSE i \in 1..Len(pd[c]) :
                      /\ pd[c][i].date = date
                      /\ \A j \in 1..Len(pd[c]) : pd[c][j].date = date => j <= i
    IN  [c \in {c \in DOMAIN pd : has(c)} |-> pd[c][last(c)].close]

\* list.sort(key=date): a stable insertion of row r into a date-sorted sequence
RECURSIVE InsertByDate(_, _)
InsertByDate(sorted, r) ==
    IF sorted = <<>> THEN <<r>>
    ELSE IF Head(sorted).date <= r.date
         THEN <<Head(sorted)>> \o InsertByDate(Tail(sorted), r)
         ELSE <<r>> \o sorted

RECURSIVE SortByDate(_)
SortByDate(rows) ==
    IF rows = <<>> THEN <<>>
    ELSE InsertByDate(SortByDate(SubSeq(rows, 1, Len(rows) - 1)), rows[Len(rows)])

\* _build_price_series_cache: per code the (date, close) pairs sorted by date
BuildPriceSeriesCache(pd) == [c \in DOMAIN pd |-> SortByDate(pd[c])]

\* _build_ohlc_dates_cache: per code the sorted date strings
BuildOhlcDatesCache(pd) ==
    [c \in DOMAIN pd |-> [i \in 1..Len(pd[c]) |-> SortByDate(pd[c])[i].date]]

\* a search that takes one element too many
RECURSIVE BisectRightOffByOne(_, _, _, _)
BisectRightOffByOne(a, x, lo, hi) ==
    IF lo >= hi THEN (IF lo < Len(a) THEN lo + 1 ELSE lo)
    ELSE LET mid == (lo + hi) \div 2
         IN  IF x < a[mid + 1] THEN BisectRightOffByOne(a, x, lo, mid)
             ELSE BisectRightOffByOne(a, x, mid + 1, hi)

\* bisect.bisect_right(a, x, lo, hi) on a 0-based list a of dates: the binary
\* search of the standard library (a[mid] is a[mid + 1] here)
RECURSIVE BisectRight(_, _, _, _)
BisectRight(a, x, lo, hi) ==
    IF lo >= hi THEN lo
    ELSE LET mid == (lo + hi) \div 2
         IN  IF x < a[mid + 1] THEN BisectRight(a, x, lo, mid)
             ELSE BisectRight(a, x, mid + 1, hi)

\* the fallback of _get_prices_until / _get_ohlc_until: the rows with
\* date <= D, in frame order
RowsUntilLinear(df, date) == SelectSeq(df, LAMBDA r : r.date <= date)

Closes(rows) == [i \in 1..Len(rows) |-> rows[i].close]

\* _get_prices_until.  The cache is consulted when the frame carries a "code"
\* column (frames fetched by DataFeed do, frames loaded from the database do
\* not); bisect_right(pairs, (date, inf)) compares the dates of the pairs.
GetPricesUntil(df, code, date, cache, has_code_column) ==
    IF has_code_column /\ df # <<>> /\ code \in DOMAIN cache
    THEN LET pairs == cache[code]
             dates == [i \in 1..Len(pairs) |-> pairs[i].date]
             idx == BisectRight(dates, date, 0, Len(dates))
         IN  Closes(SubSeq(pairs, 1, idx))
    ELSE Closes(RowsUntilLinear(df, date))

\* _get_ohlc_until: df.iloc[:idx] with idx found in the sorted dates cache
GetOhlcUntil(df, code, date, cache) ==
    IF code \in DOMAIN cache
    THEN LET idx == BisectRight(cache[code], date, 0, Len(cache[code]))
         IN  SubSeq(df, 1, idx)
    ELSE RowsUntilLinear(df, date)

\* step 2 of _generate_strategy_signals: the truncated dict handed to
\* prepare_signal_kwargs, codes with an empty slice left out
Truncated(pd, date, r) ==
    LET slice(c) ==
            IF r.needs_ohlc
            THEN GetOhlcUntil(pd[c], c, date, BuildOhlcDatesCache(pd))
            ELSE GetPricesUntil(pd[c], c, date, BuildPriceSeriesCache(pd),
                                r.has_code_column)
    IN  [c \in {c \in DOMAIN pd : Len(slice(c)) > 0} |-> slice(c)]

(***************************************************************************)
(* Strategy plugin: the signals and the fill callback.                     *)
(***************************************************************************)
\* TradeSignal; target_position, pair and role are the metadata keys StatArb sets
TradeSignal(strategy, code, signal, quantity, price, pair, target, role) ==
    [strategy |-> strategy, code |-> code, market |-> "KR", signal |-> signal,
     quantity |-> quantity, price |-> price,
     pair |-> pair, target_position |-> target, role |-> role]

\* StatArbStrategy.on_trade_executed applied whatever `success` is
StatArbOnTradeExecutedIgnoringSuccess(st, sig, success) ==
    IF sig.pair = "" \/ sig.pair \notin DOMAIN st.pair_states THEN st
    ELSE IF sig.signal = "BUY"
         THEN IF sig.target_position \in {"LONG_A", "LONG_B"}
              THEN [st EXCEPT !.pair_states[sig.pair].position = sig.target_position]
              ELSE st
         ELSE IF sig.signal = "CLOSE"
              THEN IF sig.role # "hedge"
                   THEN [st EXCEPT !.pair_states[sig.pair].position = "NONE"]
                   ELSE st
              ELSE st

\* StatArbStrategy.on_trade_executed
StatArbOnTradeExecuted(st, sig, success) ==
    IF sig.pair = "" \/ sig.pair \notin DOMAIN st.pair_states THEN st
    ELSE IF sig.signal = "BUY" /\ success
         THEN IF sig.target_position \in {"LONG_A", "LONG_B"}
              THEN [st EXCEPT !.pair_states[sig.pair].position = sig.target_position]
              ELSE st
         ELSE IF sig.signal = "CLOSE" /\ success
              THEN IF sig.role # "hedge"
                   THEN [st EXCEPT !.pair_states[sig.pair].position = "NONE"]
                   ELSE st
              ELSE st

\* signal.metadata.get(key): the metadata entries of a signal are the record's
\* fields beyond the TradeSignal dataclass's own; a missing key reads as ""
MetaGet(sig, key) == IF key \in DOMAIN sig THEN sig[key] ELSE ""

\* DualMomentumStrategy: the state __init__ leaves
NewDualMomentum ==
    [kind |-> "dual_momentum", current_allocation |-> "NONE",
     kr_return |-> 0, us_return |-> 0]

\* DualMomentumStrategy.on_trade_executed
DualMomentumOnTradeExecuted(st, sig, success) ==
    IF ~success THEN st
    ELSE IF sig.signal = "BUY" /\ MetaGet(sig, "target_allocation") # ""
         THEN [st EXCEPT !.current_allocation = MetaGet(sig, "target_allocation")]
         ELSE st

\* QuantFactorStrategy: the state __init__ leaves; the class does not override
\* on_trade_executed
NewQuantFactor ==
    [kind |-> "quant_factor", current_holdings |-> {}, last_scores |-> <<>>]

\* SectorRotationStrategy: the state __init__ leaves
NewSectorRotation ==
    [kind |-> "sector_rotation", current_holdings |-> {}, sector_returns |-> <<>>]

\* on_trade_executed of SectorRotationStrategy and of BollingerBandStrategy
HoldingsOnTradeExecuted(st, sig, success) ==
    IF ~success THEN st
    ELSE IF sig.signal = "BUY"
         THEN [st EXCEPT !.current_holdings = @ \cup {sig.code}]
         ELSE IF sig.signal = "CLOSE"
              THEN [st EXCEPT !.current_holdings = @ \ {sig.code}]
              ELSE st

\* VolatilityBreakoutStrategy: the state __init__ leaves
NewVolatilityBreakout ==
    [kind |-> "volatility_breakout", today_targets |-> <<>>, today_entered |-> {},
     current_holdings |-> {}, last_calc_date |-> NoDate]

\* VolatilityBreakoutStrategy.on_trade_executed applied whatever `success` is
VolatilityBreakoutOnTradeExecutedIgnoringSuccess(st, sig, success) ==
    IF sig.signal = "BUY"
    THEN [st EXCEPT !.today_entered = @ \cup {sig.code},
                    !.current_holdings = @ \cup {sig.code}]
    ELSE IF sig.signal = "CLOSE"
         THEN [st EXCEPT !.current_holdings = @ \ {sig.code}]
         ELSE st

\* VolatilityBreakoutStrategy.on_trade_executed
VolatilityBreakoutOnTradeExecuted(st, sig, success) ==
    IF ~success THEN st
    ELSE IF sig.signal = "BUY"
         THEN [st EXCEPT !.today_entered = @ \cup {sig.code},
                         !.current_holdings = @ \cup {sig.code}]
         ELSE IF sig.signal = "CLOSE"
              THEN [st EXCEPT !.current_holdings = @ \ {sig.code}]
              ELSE st

\* BollingerBandStrategy: the state __init__ leaves
NewBollingerBand == [kind |-> "bollinger_band", current_holdings |-> {}]

\* strategy.name, the key of the executor's _strategies_by_name
NameOf(st) ==
    CASE st.kind = "stat_arb" -> "StatArb"
      [] st.kind = "dual_momentum" -> "DualMomentum"
      [] st.kind = "quant_factor" -> "QuantFactor"
      [] st.kind = "sector_rotation" -> "SectorRotation"
      [] st.kind = "volatility_breakout" -> "VolatilityBreakout"
      [] st.kind = "bollinger_band" -> "BollingerBand"
      [] OTHER -> st.kind

\* strategy.on_trade_executed: BaseStrategy's default does nothing
OnTradeExecuted(st, sig, success) ==
    CASE st.kind = "stat_arb" -> StatArbOnTradeExecuted(st, sig, success)
      [] st.kind = "dual_momentum" -> DualMomentumOnTradeExecuted(st, sig, success)
      [] st.kind \in {"sector_rotation", "bollinger_band"} ->
             HoldingsOnTradeExecuted(st, sig, success)
      [] st.kind = "volatility_breakout" ->
             VolatilityBreakoutOnTradeExecuted(st, sig, success)
      [] OTHER -> st

\* stat_arb settings, z-scores in tenths
entry_z == 15
exit_z == 5
stop_z == 30
\* bars prepare_signal_kwargs asks of each leg (60 in the source, scaled to MaxDays)
min_bars == 2

Abs(x) == IF x < 0 THEN -x ELSE x

\* one configured pair: stock_a, stock_b and the inverse ETF that hedges it
Pair == [name |-> "P", stock_a |-> "A", stock_b |-> "B", hedge_etf |-> "H"]

\* StatArbStrategy.__init__: a PairState() per pair
NewStatArb ==
    [kind |-> "stat_arb",
     pair_states |-> [n \in {Pair.name} |-> [position |-> "NONE"]]]

\* prepare_signal_kwargs: is the pair's data complete in the truncated dict?
StatArbHasPairData(truncated) ==
    /\ Pair.stock_a \in DOMAIN truncated
    /\ Pair.stock_b \in DOMAIN truncated
    /\ Len(truncated[Pair.stock_a]) >= min_bars
    /\ Len(truncated[Pair.stock_b]) >= min_bars

\* _close_signals
CloseSignals(st) ==
    LET position == st.pair_states[Pair.name].position
        main == IF position = "LONG_A"
                THEN <<TradeSignal("StatArb", Pair.stock_a, "CLOSE", 0, 0, Pair.name, "", "")>>
                ELSE IF position = "LONG_B"
                THEN <<TradeSignal("StatArb", Pair.stock_b, "CLOSE", 0, 0, Pair.name, "", "")>>
                ELSE <<>>
    IN  main \o <<TradeSignal("StatArb", Pair.hedge_etf, "CLOSE", 0, 0, Pair.name, "", "hedge")>>

\* generate_signals that enters on the z-score alone, whatever the position
StatArbGenerateSignalsReentering(st, is_cointegrated, z) ==
    LET current_pos == st.pair_states[Pair.name].position
        hedge == TradeSignal("StatArb", Pair.hedge_etf, "BUY", 0, 0, Pair.name, "", "hedge")
    IN  IF ~is_cointegrated THEN <<>>
        ELSE IF current_pos # "NONE" /\ Abs(z) > stop_z THEN CloseSignals(st)
        ELSE IF current_pos # "NONE" /\ Abs(z) < exit_z THEN CloseSignals(st)
        ELSE IF z > entry_z
             THEN <<TradeSignal("StatArb", Pair.stock_b, "BUY", 0, 0, Pair.name, "LONG_B", ""),
                    hedge>>
        ELSE IF z < -entry_z
             THEN <<TradeSignal("StatArb", Pair.stock_a, "BUY", 0, 0, Pair.name, "LONG_A", ""),
                    hedge>>
        ELSE <<>>

\* generate_signals that lets a held pair's exits through without the
\* cointegration gate
StatArbGenerateSignalsUngatedExit(st, is_cointegrated, z) ==
    LET current_pos == st.pair_states[Pair.name].position
        hedge == TradeSignal("StatArb", Pair.hedge_etf, "BUY", 0, 0, Pair.name, "", "hedge")
    IN  IF current_pos # "NONE" /\ Abs(z) > stop_z THEN CloseSignals(st)
        ELSE IF current_pos # "NONE" /\ Abs(z) < exit_z THEN CloseSignals(st)
        ELSE IF ~is_cointegrated THEN <<>>
        ELSE IF current_pos = "NONE" /\ z > entry_z
             THEN <<TradeSignal("StatArb", Pair.stock_b, "BUY", 0, 0, Pair.name, "LONG_B", ""),
                    hedge>>
        ELSE IF current_pos = "NONE" /\ z < -entry_z
             THEN <<TradeSignal("StatArb", Pair.stock_a, "BUY", 0, 0, Pair.name, "LONG_A", ""),
                    hedge>>
        ELSE <<>>

\* generate_signals for the pair; is_cointegrated and z are what analyze_pair
\* makes of the two series
StatArbGenerateSignals(st, is_cointegrated, z) ==
    LET current_pos == st.pair_states[Pair.name].position
        hedge == TradeSignal("StatArb", Pair.hedge_etf, "BUY", 0, 0, Pair.name, "", "hedge")
    IN  IF ~is_cointegrated THEN <<>>
        ELSE IF current_pos # "NONE" /\ Abs(z) > stop_z THEN CloseSignals(st)
        ELSE IF current_pos # "NONE" /\ Abs(z) < exit_z THEN CloseSignals(st)
        ELSE IF current_pos = "NONE" /\ z > entry_z
             THEN <<TradeSignal("StatArb", Pair.stock_b, "BUY", 0, 0, Pair.name, "LONG_B", ""),
                    hedge>>
        ELSE IF current_pos = "NONE" /\ z < -entry_z
             THEN <<TradeSignal("StatArb", Pair.stock_a, "BUY", 0, 0, Pair.name, "LONG_A", ""),
                    hedge>>
        ELSE <<>>

(***************************************************************************)
(* StatArbStrategy.analyze_pair: the cointegration recheck, the hedge      *)
(* ratio and the z-score of one pair.  What the statistics make of the two *)
(* series is an input of the call: the p-value of the Engle-Granger test   *)
(* (hundredths), the slope of the least-squares fit (tenths) and the last  *)
(* rolling z-score (tenths, NoZ when the z-score series holds no number).  *)
(* spread_mean and spread_std are written with current_z and left out.     *)
(***************************************************************************)
\* recalc_beta_days (20 in the source's settings, scaled like min_bars)
recalc_beta_days == 2
\* coint_pvalue, hundredths
coint_pvalue == 5
\* stands for a z-score series without a number (all NaN)
NoZ == 999

\* PairState() with the dataclass's defaults
NewPairState ==
    [beta |-> 0, current_z |-> 0, is_cointegrated |-> FALSE, p_value |-> 100,
     position |-> "NONE"]

\* StatArbStrategy.__init__ with every field analyze_pair reads
NewStatArbPair ==
    [kind |-> "stat_arb",
     pair_states |-> [n \in {Pair.name} |-> NewPairState],
     last_coint_len |-> [n \in {} |-> 0]]

\* _should_recalc_coint
ShouldRecalcCoint(st, pair_name, data_len) ==
    LET last_len == IF pair_name \in DOMAIN st.last_coint_len
                    THEN st.last_coint_len[pair_name] ELSE 0
    IN  (data_len - last_len) >= recalc_beta_days \/ last_len = 0

\* analyze_pair
AnalyzePair(st, data_len, p_value, fit, z) ==
    LET name == Pair.name
        state == st.pair_states[name]
        recalc == ShouldRecalcCoint(st, name, data_len)
        is_coint == p_value < coint_pvalue
        tested == IF recalc
                  THEN [state EXCEPT !.is_cointegrated = is_coint,
                                     !.p_value = p_value,
                                     !.beta = IF is_coint THEN fit ELSE @]
                  ELSE state
        scored == IF tested.is_cointegrated /\ z # NoZ
                  THEN [tested EXCEPT !.current_z = z]
                  ELSE tested
    IN  [st EXCEPT !.pair_states[name] = scored,
                   !.last_coint_len = IF recalc THEN (name :> data_len) @@ @ ELSE @]

\* generate_signals(pair_data) for the pair: nothing without both series,
\* else analyze_pair and the z-score rules on the analysed state
StatArbAnalyzeAndGenerate(st, has_data, data_len, p_value, fit, z) ==
    IF ~has_data THEN [strategy |-> st, signals |-> <<>>]
    ELSE LET st1 == AnalyzePair(st, data_len, p_value, fit, z)
             state == st1.pair_states[Pair.name]
         IN  [strategy |-> st1,
              signals |-> StatArbGenerateSignals(st1, state.is_cointegrated,
                                                 state.current_z)]

(***************************************************************************)
(* The other strategies' generate_signals.  Each operator returns the      *)
(* strategy after the call and the signals of the call.  Returns are in    *)
(* percent; a dict is walked in the order the call is handed (order), a    *)
(* set of str in the order the process's hashing gives (set_order).        *)
(***************************************************************************)
\* the instruments of the universe
Codes == {"A", "B"}
risk_free_rate == 4
\* holdings a rebalance selects (2 in the tests' settings, scaled to the universe)
top_n == 1
\* k of the breakout target, as breakout_k.num / breakout_k.den
breakout_k == [num |-> 1, den |-> 2]
SafeAsset == "S"
Universe == Codes \cup {SafeAsset}

\* the elements of S in the order of the sequence order
Enum(S, order) == SelectSeq(order, LAMBDA c : c \in S)

\* signals of one kind for the codes of a sequence
SignalsFor(strategy, codes, signal) ==
    [i \in 1..Len(codes) |-> TradeSignal(strategy, codes[i], signal, 0, 0, "", "", "")]

\* DualMomentumStrategy._determine_allocation
DetermineAllocation(st) ==
    IF st.kr_return > st.us_return
    THEN IF st.kr_return > risk_free_rate THEN "KR" ELSE "SAFE"
    ELSE IF st.us_return > risk_free_rate THEN "US" ELSE "SAFE"

\* DualMomentumStrategy._get_etf_code
GetEtfCode(allocation) ==
    CASE allocation = "KR" -> "A"
      [] allocation = "US" -> "B"
      [] OTHER -> SafeAsset

\* DualMomentumStrategy.generate_signals; has_prices: both series were handed
DualMomentumGenerateSignals(st, has_prices, kr, us) ==
    IF ~has_prices THEN [strategy |-> st, signals |-> <<>>]
    ELSE LET st1 == [st EXCEPT !.kr_return = kr, !.us_return = us]
             new_allocation == DetermineAllocation(st1)
             close == IF st1.current_allocation # "NONE"
                      THEN <<TradeSignal("DualMomentum",
                                 GetEtfCode(st1.current_allocation),
                                 "CLOSE", 0, 0, "", "", "")>>
                      ELSE <<>>
             buy == TradeSignal("DualMomentum", GetEtfCode(new_allocation),
                                "BUY", 0, 0, "", "", "")
                    @@ [target_allocation |-> new_allocation]
         IN  IF new_allocation = st1.current_allocation
             THEN [strategy |-> st1, signals |-> <<>>]
             ELSE [strategy |-> st1, signals |-> close \o <<buy>>]

\* QuantFactorStrategy.generate_signals; ranked: the scored codes by descending
\* composite score, weak: the codes whose raw momentum is under the threshold
\* (absolute_momentum_filter is on)
QuantFactorGenerateSignals(st, ranked, weak, set_order) ==
    IF ranked = <<>> THEN [strategy |-> st, signals |-> <<>>]
    ELSE LET top == {ranked[i] : i \in 1..(IF Len(ranked) < top_n THEN Len(ranked) ELSE top_n)}
             filtered_out == top \cap weak
             new_holdings == (top \ filtered_out) \cup
                             (IF filtered_out # {} THEN {SafeAsset} ELSE {})
             codes_to_close == st.current_holdings \ new_holdings
             codes_to_buy == new_holdings \ st.current_holdings
         IN  [strategy |-> [st EXCEPT !.last_scores = ranked,
                                      !.current_holdings = new_holdings],
              signals |-> SignalsFor("QuantFactor", Enum(codes_to_close, set_order), "CLOSE")
                          \o SignalsFor("QuantFactor", Enum(codes_to_buy, set_order), "BUY")]

\* sorted(sector_returns.items(), key = return, reverse = True): a stable sort
\* of the dict's order
RankByReturn(returns, order) ==
    LET codes == Enum(DOMAIN returns, order)
        Pos(c) == CHOOSE i \in 1..Len(codes) : codes[i] = c
        Before(a, b) == returns[a] > returns[b] \/ (returns[a] = returns[b] /\ Pos(a) < Pos(b))
    IN  [i \in 1..Len(codes) |->
            CHOOSE c \in DOMAIN returns :
                Cardinality({d \in DOMAIN returns : Before(d, c)}) = i - 1]

\* SectorRotationStrategy.generate_signals; returns: the momentum of each sector
\* whose prices were handed
SectorRotationGenerateSignals(st, returns, order, set_order) ==
    IF DOMAIN returns = {} THEN [strategy |-> st, signals |-> <<>>]
    ELSE LET st1 == [st EXCEPT !.sector_returns = returns]
             ranked == RankByReturn(returns, order)
             n == IF Len(ranked) < top_n THEN Len(ranked) ELSE top_n
             new_holdings == {IF returns[ranked[i]] > risk_free_rate
                              THEN ranked[i] ELSE SafeAsset : i \in 1..n}
             to_close == st.current_holdings \ new_holdings
             to_buy == new_holdings \ st.current_holdings
         IN  IF new_holdings = st.current_holdings
             THEN [strategy |-> st1, signals |-> <<>>]
             ELSE [strategy |-> st1,
                   signals |-> SignalsFor("SectorRotation", Enum(to_close, set_order), "CLOSE")
                               \o SignalsFor("SectorRotation", Enum(to_buy, set_order), "BUY")]

\* VolatilityBreakoutStrategy._update_targets; ohlc[c]: the number of rows of
\* c's frame, yesterday's high and low, today's open and high.  Targets are
\* kept times breakout_k.den.
UpdateTargets(st, today, ohlc) ==
    IF today = st.last_calc_date THEN st
    ELSE LET valid == {c \in DOMAIN ohlc :
                          /\ ohlc[c].rows >= 2
                          /\ ohlc[c].prev_high > 0 /\ ohlc[c].prev_low > 0
                          /\ ohlc[c].open > 0}
         IN  [st EXCEPT !.last_calc_date = today,
                        !.today_entered = {},
                        !.today_targets =
                            [c \in valid |-> ohlc[c].open * breakout_k.den
                                 + (ohlc[c].prev_high - ohlc[c].prev_low) * breakout_k.num]]

\* VolatilityBreakoutStrategy.generate_signals; current_prices empty: the
\* backtest branch; close_time: _is_close_time()
VolatilityBreakoutGenerateSignals(st, today, ohlc, current_prices, close_time, order, set_order) ==
    IF DOMAIN ohlc = {} THEN [strategy |-> st, signals |-> <<>>]
    ELSE LET st1 == UpdateTargets(st, today, ohlc)
             open == DOMAIN st1.today_targets \ st1.today_entered
             closes == SignalsFor("VolatilityBreakout",
                                  Enum(st1.current_holdings, set_order), "CLOSE")
             live_hits == {c \in open \cap DOMAIN current_prices :
                              current_prices[c] * breakout_k.den >= st1.today_targets[c]}
             backtest_hits == {c \in open \cap DOMAIN ohlc :
                                  /\ ohlc[c].rows > 0
                                  /\ ohlc[c].high * breakout_k.den >= st1.today_targets[c]}
         IN  IF DOMAIN current_prices # {}
             THEN IF close_time
                  THEN [strategy |-> st1, signals |-> closes]
                  ELSE [strategy |-> st1,
                        signals |-> SignalsFor("VolatilityBreakout",
                                               Enum(live_hits, order), "BUY")]
             ELSE [strategy |-> st1,
                   signals |-> closes \o SignalsFor("VolatilityBreakout",
                                                    Enum(backtest_hits, order), "BUY")]

\* BollingerBandStrategy.generate_signals; band[c]: "short" when c has fewer
\* closes than the window, else where the last close lies against the bands
BollingerBandGenerateSignals(st, band, order) ==
    LET codes == Enum(DOMAIN band, order)
        Of(c) == IF band[c] = "below" /\ c \notin st.current_holdings
                 THEN <<TradeSignal("BollingerBand", c, "BUY", 0, 0, "", "", "")>>
                 ELSE IF band[c] = "above" /\ c \in st.current_holdings
                      THEN <<TradeSignal("BollingerBand", c, "CLOSE", 0, 0, "", "", "")>>
                      ELSE <<>>
        Cat[i \in 0..Len(codes)] == IF i = 0 THEN <<>> ELSE Cat[i - 1] \o Of(codes[i])
    IN  [strategy |-> st, signals |-> Cat[Len(codes)]]

(***************************************************************************)
(* BacktestEngine: booking.  Rates are fractions num / den; the model's    *)
(* prices are multiples of 1000 so that fills and commissions are whole.   *)
(***************************************************************************)
commission_rate == [num |-> 1, den |-> 100]
slippage_rate == [num |-> 1, den |-> 10]

BuyPrice(price) == (price * (slippage_rate.den + slippage_rate.num)) \div slippage_rate.den
SellPrice(price) == (price * (slippage_rate.den - slippage_rate.num)) \div slippage_rate.den
Commission(gross) == (gross * commission_rate.num) \div commission_rate.den

\* BacktestEngine.__init__
NewEngine(strategy, initial_capital, stored_kill_switch) ==
    [strategy |-> strategy,
     cash |-> initial_capital,
     positions |-> <<>>,
     equity_history |-> <<>>,
     trades |-> <<>>,
     risk_manager |->
        [NewRiskManager(TRUE, stored_kill_switch, NoAlloc) EXCEPT
            !.state.total_equity = initial_capital,
            !.state.cash = initial_capital,
            !.state.peak_equity = initial_capital],
     \* position in run() and what the current day has produced so far
     pc |-> "Start", all_dates |-> <<>>, day |-> 0,
     signals |-> <<>>, handed |-> <<>>, skipped |-> FALSE,
     risk_value |-> 0, risk_result |-> "", steps |-> <<>>]

HeldCodes(e) == {e.positions[i].code : i \in 1..Len(e.positions)}

PositionOf(e, code) ==
    e.positions[CHOOSE i \in 1..Len(e.positions) : e.positions[i].code = code]

\* _execute_buy
ExecuteBuy(e, date, sig, price) ==
    IF sig.code \in HeldCodes(e) THEN e
    ELSE
    LET exec_price == BuyPrice(price)
        sized == IF sig.quantity <= 0
                 THEN CalculatePositionSize(e.risk_manager, exec_price, "")
                 ELSE sig.quantity
        short_of_cash == exec_price * sized + Commission(exec_price * sized) > e.cash
        \* int(cash * 0.95 / (exec_price * (1 + commission_rate)))
        quantity == IF short_of_cash
                    THEN Trunc(e.cash * 95 * commission_rate.den,
                               100 * exec_price
                                   * (commission_rate.den + commission_rate.num))
                    ELSE sized
        gross_amount == exec_price * quantity
        commission == Commission(gross_amount)
        net_amount == gross_amount + commission
        verdict == CanOpenPosition(e.risk_manager, gross_amount, "")
    IN  IF sized <= 0 \/ quantity <= 0 THEN e
        ELSE IF verdict = Raised
             THEN [e EXCEPT !.risk_value = gross_amount, !.risk_result = verdict,
                            !.pc = "Raised"]
        ELSE IF verdict # Accept
             THEN [e EXCEPT !.risk_value = gross_amount, !.risk_result = verdict]
        ELSE [e EXCEPT
                !.risk_value = gross_amount,
                !.risk_result = verdict,
                !.cash = @ - net_amount,
                !.positions = Append(@,
                    [code |-> sig.code, quantity |-> quantity,
                     entry_price |-> exec_price, entry_date |-> date,
                     market |-> sig.market, strategy |-> sig.strategy,
                     current_price |-> exec_price]),
                !.risk_manager = AddPosition(@,
                    [code |-> sig.code, market |-> sig.market, side |-> "LONG",
                     quantity |-> quantity, entry_price |-> exec_price,
                     current_price |-> exec_price, strategy |-> sig.strategy]),
                !.trades = Append(@,
                    [date |-> date, strategy |-> sig.strategy, code |-> sig.code,
                     side |-> "BUY", quantity |-> quantity, price |-> exec_price,
                     commission |-> commission, net_amount |-> net_amount,
                     pnl |-> 0, holding_days |-> 0]),
                !.strategy = OnTradeExecuted(@, sig, TRUE)]

\* _execute_sell booking the sale of an instrument it does not hold
ExecuteSellUnheld(e, date, sig, price) ==
    LET exec_price == SellPrice(price)
    IN  [e EXCEPT
            !.positions = SelectSeq(@, LAMBDA p : p.code # sig.code),
            !.risk_manager = RemovePosition(@, sig.code),
            !.trades = Append(@,
                [date |-> date, strategy |-> sig.strategy, code |-> sig.code,
                 side |-> "SELL", quantity |-> 0, price |-> exec_price,
                 commission |-> 0, net_amount |-> 0,
                 pnl |-> 0, holding_days |-> 0])]

\* _execute_sell
ExecuteSell(e, date, sig, price) ==
    IF sig.code \notin HeldCodes(e) THEN e
    ELSE
    LET pos == PositionOf(e, sig.code)
        exec_price == SellPrice(price)
        gross_amount == exec_price * pos.quantity
        commission == Commission(gross_amount)
        net_amount == gross_amount - commission
        cost_basis == pos.entry_price * pos.quantity
        pnl == net_amount - cost_basis - Commission(cost_basis)
    IN  [e EXCEPT
            !.cash = @ + net_amount,
            !.positions = SelectSeq(@, LAMBDA p : p.code # sig.code),
            !.risk_manager = RemovePosition(@, sig.code),
            !.trades = Append(@,
                [date |-> date, strategy |-> sig.strategy, code |-> sig.code,
                 side |-> "SELL", quantity |-> pos.quantity, price |-> exec_price,
                 commission |-> commission, net_amount |-> net_amount,
                 pnl |-> pnl, holding_days |-> date - pos.entry_date]),
            !.strategy = OnTradeExecuted(@, sig, TRUE)]

\* _execute_signal: a signal's own price wins over the day's close; no price, no fill
ExecuteSignal(e, date, sig, day_prices) ==
    LET price == IF sig.price > 0 THEN sig.price
                 ELSE IF sig.code \in DOMAIN day_prices THEN day_prices[sig.code]
                 ELSE 0
    IN  IF price <= 0 THEN e
        ELSE IF sig.signal = "BUY" THEN ExecuteBuy(e, date, sig, price)
        ELSE IF sig.signal \in {"SELL", "CLOSE"} THEN ExecuteSell(e, date, sig, price)
        ELSE e

\* `for signal in signals: self._execute_signal(...)`: an exception ends the loop
RECURSIVE ExecuteAll(_, _, _, _)
ExecuteAll(e, date, sigs, day_prices) ==
    IF sigs = <<>> \/ e.pc = "Raised" THEN e
    ELSE ExecuteAll(ExecuteSignal(e, date, Head(sigs), day_prices),
                    date, Tail(sigs), day_prices)

\* _update_positions
UpdatePositions(e, day_prices) ==
    LET updated == HeldCodes(e) \cap DOMAIN day_prices
    IN  [e EXCEPT
            !.positions = [i \in 1..Len(@) |->
                IF @[i].code \in updated
                THEN [@[i] EXCEPT !.current_price = day_prices[@[i].code]]
                ELSE @[i]],
            !.risk_manager =
                IF updated # {}
                THEN UpdatePrices(@, [c \in updated |-> day_prices[c]])
                ELSE @]

\* the positions _check_stop_losses collects: priced today and at or below the stop
StopLossCodes(e, day_prices) ==
    SelectSeq(e.positions, LAMBDA p :
        /\ p.code \in DOMAIN day_prices
        /\ (day_prices[p.code] - p.entry_price) * 100 <= stop_loss_pct * p.entry_price)

\* the second loop of _check_stop_losses: _execute_sell of a CLOSE signal per
\* collected position, at the day's price
RECURSIVE CloseAll(_, _, _, _)
CloseAll(e, date, hit, day_prices) ==
    IF hit = <<>> THEN e
    ELSE CloseAll(ExecuteSell(e, date,
                      TradeSignal(Head(hit).strategy, Head(hit).code, "CLOSE",
                                  0, 0, "", "", ""),
                      day_prices[Head(hit).code]),
                  date, Tail(hit), day_prices)

\* _check_stop_losses
CheckStopLosses(e, date, day_prices) ==
    CloseAll(e, date, StopLossCodes(e, day_prices), day_prices)

\* _calculate_equity
CalculateEquity(e, day_prices) ==
    e.cash + SumSeq([i \in 1..Len(e.positions) |->
                        e.positions[i].quantity
                        * (IF e.positions[i].code \in DOMAIN day_prices
                           THEN day_prices[e.positions[i].code]
                           ELSE e.positions[i].current_price)])

\* step 5 of _simulate_day: the equity entry and the RiskManager sync
RecordEquity(e, date, day_prices) ==
    LET equity == CalculateEquity(e, day_prices)
    IN  [e EXCEPT
            !.equity_history = Append(@,
                [date |-> date, equity |-> equity, cash |-> e.cash,
                 positions_value |-> equity - e.cash,
                 positions_count |-> Len(e.positions)]),
            !.risk_manager.state.total_equity = equity,
            !.risk_manager.state.cash = e.cash,
            !.risk_manager.state.peak_equity = IF equity > @ THEN equity ELSE @]

(***************************************************************************)
(* BacktestEngine.run and _simulate_day, one step at a time.  e.pc is the  *)
(* statement run() is at; e.steps lists the steps completed, per date.     *)
(***************************************************************************)
Today(e) == e.all_dates[e.day]

Done(e, step) == [e EXCEPT !.steps = Append(@, <<Today(e), step>>)]

\* run(), lines 142-165: the date index; no dates, no simulation
StepStart(e, pd, r) ==
    LET all_dates == BuildDateIndex(pd, r.start_date, r.end_date)
    IN  IF all_dates = <<>> THEN [e EXCEPT !.pc = "Done"]
        ELSE [e EXCEPT !.all_dates = all_dates, !.day = 1, !.pc = "UpdatePrices"]

\* a day loop that goes from the price update straight to the signals
StepUpdatePricesThenSignals(e, pd) ==
    [Done(UpdatePositions(e, GetDayPrices(pd, Today(e))), "UpdatePrices")
        EXCEPT !.pc = "GenerateSignals"]

\* the loop header (a date without prices is passed over) and step 1
StepUpdatePrices(e, pd) ==
    LET day_prices == GetDayPrices(pd, Today(e))
    IN  IF DOMAIN day_prices = {}
        THEN IF e.day < Len(e.all_dates) THEN [e EXCEPT !.day = @ + 1]
             ELSE [e EXCEPT !.pc = "End"]
        ELSE [Done(UpdatePositions(e, day_prices), "UpdatePrices")
                EXCEPT !.pc = "CheckStopLosses"]

\* step 2
StepCheckStopLosses(e, pd) ==
    [Done(CheckStopLosses(e, Today(e), GetDayPrices(pd, Today(e))), "CheckStopLosses")
        EXCEPT !.pc = "GenerateSignals"]

\* step 3, _generate_strategy_signals: skip is what should_skip_date answers and
\* sigs what prepare_signal_kwargs and generate_signals make of the truncated data
StepGenerateSignals(e, pd, r, skip, sigs) ==
    LET truncated == Truncated(pd, Today(e), r)
        none == skip \/ DOMAIN truncated = {}
    IN  [Done(e, "GenerateSignals") EXCEPT
            !.skipped = skip,
            !.handed = IF skip THEN <<>> ELSE truncated,
            !.signals = IF none THEN <<>> ELSE sigs,
            !.pc = "Execute"]

\* step 4: every signal of the day, unless one raises
StepExecute(e, pd) ==
    LET after == ExecuteAll(e, Today(e), e.signals, GetDayPrices(pd, Today(e)))
    IN  IF after.pc = "Raised" THEN after
        ELSE [Done(after, "EnforceRiskAndExecute") EXCEPT !.pc = "RecordEquity"]

\* step 5, then the next date
StepRecordEquity(e, pd) ==
    [Done(RecordEquity(e, Today(e), GetDayPrices(pd, Today(e))), "RecordEquity")
        EXCEPT !.signals = <<>>,
               !.day = IF e.day < Len(e.all_dates) THEN @ + 1 ELSE @,
               !.pc = IF e.day < Len(e.all_dates) THEN "UpdatePrices" ELSE "End"]

\* the liquidation loop of run(), lines 176-188
RECURSIVE LiquidateAll(_, _, _, _)
LiquidateAll(e, date, codes, last_prices) ==
    IF codes = <<>> THEN e
    ELSE LET pos == PositionOf(e, Head(codes))
             price == IF pos.code \in DOMAIN last_prices
                      THEN last_prices[pos.code] ELSE pos.current_price
         IN  LiquidateAll(ExecuteSell(e, date,
                              TradeSignal(pos.strategy, pos.code, "CLOSE",
                                          0, 0, "", "", ""),
                              price),
                          date, Tail(codes), last_prices)

\* end of run(), lines 172-199: open positions are sold at the last date's prices
\* and the equity of the last entry is recalculated
StepEnd(e, pd) ==
    LET last_date == e.all_dates[Len(e.all_dates)]
        last_prices == GetDayPrices(pd, last_date)
        codes == [i \in 1..Len(e.positions) |-> e.positions[i].code]
        sold == LiquidateAll(e, last_date, codes, last_prices)
        n == Len(sold.equity_history)
    IN  IF e.positions = <<>> THEN [e EXCEPT !.pc = "Done"]
        ELSE IF n = 0 THEN [sold EXCEPT !.pc = "Done"]
        ELSE [sold EXCEPT
                !.equity_history[n].equity = CalculateEquity(sold, last_prices),
                !.pc = "Done"]

(***************************************************************************)
(* Spec: one process drives a live RiskManager through its API (scenario   *)
(* "live"), trades StatArb signals through the OrderExecutor ("trading"),  *)
(* or runs one backtest ("backtest"); a BacktestEngine owns its            *)
(* RiskManager, so a backtest shares no state with the other two.          *)
(***************************************************************************)
MaxSignals == 2

\* no can_open_position call made yet
NoCall == [made |-> FALSE]

\* strategy names a caller passes, and the strategy_allocation settings
LadderStrategies == {"", "stat_arb"}
LadderAllocations == {NoAlloc, [s \in {"stat_arb"} |-> 30]}

ClosesOf(c) == IF c = "A" THEN {1000, 2000} ELSE {1000}

\* the frames a loader can deliver for code c: rows in ascending date order, one
\* row per date (ORDER BY date ASC over UNIQUE(code, market, date); DataFeed.fetch
\* sorts by date), never empty.  B is listed on every date.
FramesOf(c) ==
    LET listed == IF c = "A" THEN SUBSET Dates \ {{}} ELSE {Dates}
    IN  UNION {
          {[i \in 1..Cardinality(S) |-> [date |-> SortedSeq(S)[i], close |-> f[SortedSeq(S)[i]]]]
             : f \in [S -> ClosesOf(c)]}
          : S \in listed}

\* run(price_data): a frame per code
Histories ==
    {[c \in Codes |-> IF c = "A" THEN fa ELSE fb] :
        fa \in FramesOf("A"), fb \in FramesOf("B")}

GenericStrategy == [kind |-> "generic"]

\* what a strategy can emit on a day: signals with and without a quantity
GenericSignals ==
    {TradeSignal("Generic", "A", "BUY", 0, 0, "", "", ""),
     TradeSignal("Generic", "B", "BUY", 20, 0, "", "", ""),
     TradeSignal("Generic", "A", "CLOSE", 0, 0, "", "", "")}

SignalLists == UNION {[1..n -> GenericSignals] : n \in 0..MaxSignals}

InitialCapitals == {1000, 10000}

LiveEquities == {0, 500, 1000}
LiveCash == {0, 1000}
LiveValues == {0, 50, 300}
LivePositions ==
    {[code |-> c, market |-> "KR", side |-> "LONG", quantity |-> 1,
      entry_price |-> 100, current_price |-> 100, strategy |-> "stat_arb"]
        : c \in Codes}

ZScores == {-40, -20, 0, 5, 10, 15, 20, 40}

\* prices get_current_price can answer in live trading; 0 is a failed quote
LivePrices == {0, 100}

NoTwin == [on |-> FALSE]

\* the live side: the StatArb instance main.py registers with the executor and
\* the signals of the current cycle still to be handled
\* registered: the executor was handed the strategies (main.py does so, the
\* dashboard's run_once does not)
NewLive ==
    [strategy |-> NewStatArb, registered |-> TRUE, pending |-> <<>>,
     phase |-> "idle", last |-> [outcome |-> ""]]

StrategyOf(kind) == IF kind = "stat_arb" THEN NewStatArb ELSE GenericStrategy

Init ==
    /\ run \in [scenario : {"live", "trading", "backtest"},
                strategy : {"generic", "stat_arb"},
                start_date : {NoDate, 2}, end_date : {NoDate},
                needs_ohlc : BOOLEAN, has_code_column : BOOLEAN,
                initial_capital : InitialCapitals]
    /\ IF run.scenario = "backtest"
       THEN /\ ~(run.needs_ohlc /\ run.has_code_column)
            /\ run.strategy = "stat_arb" => ~run.needs_ohlc /\ run.start_date = NoDate
            /\ run.start_date # NoDate => ~run.needs_ohlc /\ ~run.has_code_column
            /\ \E k \in BOOLEAN :
                  /\ k => run.start_date = NoDate /\ ~run.needs_ohlc /\ ~run.has_code_column
                  /\ eng = NewEngine(StrategyOf(run.strategy), run.initial_capital, k)
            /\ price_data \in Histories
            /\ rm = NewRiskManager(FALSE, FALSE, NoAlloc)
       ELSE /\ price_data = [c \in Codes |-> <<>>]
            /\ run.strategy = "stat_arb"
            /\ run.start_date = NoDate /\ ~run.needs_ohlc /\ ~run.has_code_column
            /\ run.initial_capital = 1000
            /\ eng = NewEngine(GenericStrategy, run.initial_capital, FALSE)
            /\ \E k \in BOOLEAN, a \in LadderAllocations :
                  /\ rm = NewRiskManager(FALSE, k, a)
                  /\ run.scenario = "trading" => ~k
    /\ call = NoCall
    /\ twin = NoTwin
    /\ store = NoStore
    /\ \E registered \in BOOLEAN :
          /\ ~registered => run.scenario = "trading"
          /\ live = [NewLive EXCEPT !.registered = registered]

IsLive == run.scenario = "live"
IsTrading == run.scenario = "trading"
IsBacktest == run.scenario = "backtest"

\* live: update_equity(total_equity, cash)
LiveUpdateEquity ==
    /\ IsLive
    /\ \E te \in LiveEquities, c \in LiveCash : rm' = UpdateEquity(rm, te, c)
    /\ UNCHANGED <<call, price_data, run, eng, twin, live, store>>

\* live: add_position
LiveAddPosition ==
    /\ IsLive
    /\ Len(rm.state.positions) < max_positions
    /\ \E p \in LivePositions : rm' = AddPosition(rm, p)
    /\ UNCHANGED <<call, price_data, run, eng, twin, live, store>>

\* live: remove_position
LiveRemovePosition ==
    /\ IsLive
    /\ \E c \in Codes : rm' = RemovePosition(rm, c)
    /\ UNCHANGED <<call, price_data, run, eng, twin, live, store>>

\* live: activate_kill_switch / deactivate_kill_switch
LiveSetKillSwitch ==
    /\ IsLive
    /\ \E k \in BOOLEAN, write_ok \in BOOLEAN :
          IF k THEN /\ rm' = ActivateKillSwitch(rm)
                    /\ store' = ActivateKillSwitchFile(store, write_ok)
               ELSE /\ rm' = DeactivateKillSwitch(rm)
                    /\ store' = DeactivateKillSwitchFile(store, write_ok)
    /\ UNCHANGED <<call, price_data, run, eng, twin, live>>

\* live: can_open_position(code, market_value, strategy)
LiveCanOpenPosition ==
    /\ IsLive
    /\ \E mv \in LiveValues, strategy \in LadderStrategies :
          call' = [made |-> TRUE, market_value |-> mv, strategy |-> strategy,
                   result |-> CanOpenPosition(rm, mv, strategy)]
    /\ UNCHANGED <<rm, price_data, run, eng, twin, live, store>>

\* a trading cycle runs on the executor's RiskManager and registered strategy
InCycle == run.scenario \in {"trading", "session"}

\* run_once: generate_signals of the registered StatArb strategy
LiveGenerateSignals ==
    /\ InCycle /\ live.phase = "idle"
    /\ \E c \in BOOLEAN, z \in ZScores :
          live' = [live EXCEPT !.pending = StatArbGenerateSignals(live.strategy, c, z),
                               !.phase = "generated",
                               !.last = [outcome |-> "generated", z |-> z,
                                         is_cointegrated |-> c]]
    /\ UNCHANGED <<rm, call, price_data, run, eng, twin, store>>

\* RiskManager.check_portfolio_risk, of which the repository holds only the
\* call: no execution while the switch is on or the aggregate drawdown or
\* daily loss is past its limit, and a breach trips the switch
CheckPortfolioRisk(r) ==
    [safe |-> ~(r.kill_switch \/ DailyLossHit(r) \/ DrawdownHit(r)),
     trip |-> DailyLossHit(r) \/ DrawdownHit(r)]

\* OrderExecutor.scan_stop_losses
ScanStopLosses(r) ==
    LET hit == SelectSeq(r.state.positions, CheckStopLoss)
    IN  [i \in 1..Len(hit) |->
            TradeSignal(hit[i].strategy, hit[i].code, "SELL", 0, 0, "", "", "")]

\* whether _execute_sell finds a quantity to sell
Held(r, code) ==
    \E i \in 1..Len(r.state.positions) :
        /\ r.state.positions[i].code = code
        /\ r.state.positions[i].quantity > 0

\* execute_signals, step 3: _execute_sell of each stop-loss signal, an
\* exception only logged; brokers[i]: how the i-th order ends
RECURSIVE ExecuteStopSells(_, _, _, _)
ExecuteStopSells(r, st, sigs, brokers) ==
    IF sigs = <<>> THEN [rm |-> r, strategy |-> st]
    ELSE LET sig == Head(sigs)
             filled == Held(r, sig.code) /\ Head(brokers) = "ok"
         IN  ExecuteStopSells(
                 IF filled THEN RemovePosition(r, sig.code) ELSE r,
                 IF filled /\ live.registered /\ sig.strategy = NameOf(st)
                 THEN OnTradeExecuted(st, sig, TRUE) ELSE st,
                 Tail(sigs), Tail(brokers))

BrokerOutcomes == {"ok", "refused", "raise"}

\* execute_signals with the portfolio check answering `safe` whatever it found
ExecuteSignalsIgnoringRisk(check, write_ok, brokers) ==
    LET stops == ScanStopLosses(rm)
        sold == ExecuteStopSells(rm, live.strategy, stops, brokers)
    IN  /\ rm' = sold.rm
        /\ store' = store
        /\ live' = [live EXCEPT !.strategy = sold.strategy,
                                !.phase = IF live.pending = <<>> THEN "idle"
                                          ELSE "executing",
                                !.last = [outcome |-> "started", stops |-> stops]]

\* execute_signals up to its loop: the portfolio check, then the stop-loss sells
ExecuteSignalsStart(check, write_ok, brokers) ==
    IF ~check.safe
    THEN /\ rm' = IF check.trip THEN ActivateKillSwitch(rm) ELSE rm
         /\ store' = IF check.trip THEN ActivateKillSwitchFile(store, write_ok)
                     ELSE store
         /\ live' = [live EXCEPT !.pending = <<>>, !.phase = "idle",
                                 !.last = [outcome |-> "halted",
                                           dropped |-> live.pending]]
    ELSE LET stops == ScanStopLosses(rm)
             sold == ExecuteStopSells(rm, live.strategy, stops, brokers)
         IN  /\ rm' = sold.rm
             /\ store' = store
             /\ live' = [live EXCEPT !.strategy = sold.strategy,
                                     !.phase = IF live.pending = <<>> THEN "idle"
                                               ELSE "executing",
                                     !.last = [outcome |-> "started",
                                               stops |-> stops]]

ExecutorStart ==
    /\ InCycle /\ live.phase = "generated"
    /\ \E write_ok \in BOOLEAN,
          brokers \in [1..Len(ScanStopLosses(rm)) -> BrokerOutcomes] :
          ExecuteSignalsStart(CheckPortfolioRisk(rm), write_ok, brokers)
    /\ UNCHANGED <<call, price_data, run, eng, twin>>

\* what handling one signal of the loop leaves in `live`
\* callback: the on_trade_executed call the code makes when the signal's
\* strategy is among _strategies_by_name
Handled(sig, outcome, why, callback) ==
    LET called == IF live.registered /\ sig.strategy = NameOf(live.strategy)
                  THEN callback ELSE "none"
    IN  [live EXCEPT !.pending = Tail(@),
                     !.phase = IF Tail(live.pending) = <<>> THEN "idle"
                               ELSE "executing",
                     !.strategy = IF called = "none" THEN @
                                  ELSE OnTradeExecuted(@, sig, called = "success"),
                     !.last = [signal |-> sig, outcome |-> outcome, why |-> why,
                               callback |-> called]]

\* OrderExecutor._execute_buy: quote, size, risk gate, order, position, callback.
\* broker is how the order call ends: "ok", "refused" (a falsy result) or "raise".
ExecutorBuy(sig, price, broker) ==
    LET quantity == IF sig.quantity > 0 THEN sig.quantity
                    ELSE CalculatePositionSize(rm, price, sig.strategy)
        verdict == CanOpenPosition(rm, price * quantity, sig.strategy)
    IN  IF price <= 0 \/ quantity <= 0
        THEN /\ live' = Handled(sig, "returned", "no_price", "none")
             /\ rm' = rm
        ELSE IF verdict # Accept
        THEN /\ live' = Handled(sig, "returned", verdict, "none")
             /\ rm' = rm
        ELSE IF broker = "refused"
        THEN /\ live' = Handled(sig, "returned", "refused", "none")
             /\ rm' = rm
        ELSE IF broker = "raise"
        THEN /\ live' = Handled(sig, "raised", "broker", "failure")
             /\ rm' = rm
        ELSE /\ live' = Handled(sig, "filled", "", "success")
             /\ rm' = AddPosition(rm,
                    [code |-> sig.code, market |-> sig.market, side |-> "LONG",
                     quantity |-> quantity, entry_price |-> price,
                     current_price |-> price, strategy |-> sig.strategy])

\* OrderExecutor._execute_sell
ExecutorSell(sig, price, broker) ==
    IF ~Held(rm, sig.code)
    THEN /\ live' = Handled(sig, "returned", "no_position", "none")
         /\ rm' = rm
    ELSE IF broker = "refused"
    THEN /\ live' = Handled(sig, "returned", "refused", "none")
         /\ rm' = rm
    ELSE IF broker = "raise"
    THEN /\ live' = Handled(sig, "raised", "broker", "failure")
         /\ rm' = rm
    ELSE /\ live' = Handled(sig, "filled", "", "success")
         /\ rm' = RemovePosition(rm, sig.code)

\* the body of execute_signals' loop for the next signal of the cycle
ExecutorHandleSignal ==
    /\ InCycle /\ live.phase = "executing"
    /\ \E price \in LivePrices, broker \in BrokerOutcomes :
          IF Head(live.pending).signal = "BUY"
          THEN ExecutorBuy(Head(live.pending), price, broker)
          ELSE ExecutorSell(Head(live.pending), price, broker)
    /\ UNCHANGED <<call, price_data, run, eng, twin, store>>

RunStart ==
    /\ IsBacktest /\ eng.pc = "Start"
    /\ eng' = StepStart(eng, price_data, run)
    /\ UNCHANGED <<rm, call, price_data, run, twin, live, store>>

SimUpdatePrices ==
    /\ IsBacktest /\ eng.pc = "UpdatePrices"
    /\ eng' = StepUpdatePrices(eng, price_data)
    /\ UNCHANGED <<rm, call, price_data, run, twin, live, store>>

SimCheckStopLosses ==
    /\ IsBacktest /\ eng.pc = "CheckStopLosses"
    /\ eng' = StepCheckStopLosses(eng, price_data)
    /\ UNCHANGED <<rm, call, price_data, run, twin, live, store>>

\* what the strategy can answer on a day, as <<skip, signals>>: the generic
\* strategy anything; StatArb never skips a date and needs the pair's two series
SignalChoices(st, truncated) ==
    IF st.kind = "stat_arb"
    THEN IF StatArbHasPairData(truncated)
         THEN {<<FALSE, StatArbGenerateSignals(st, c, z)>> : c \in BOOLEAN, z \in ZScores}
         ELSE {<<FALSE, <<>> >>}
    ELSE BOOLEAN \X SignalLists

SimGenerateSignals ==
    /\ IsBacktest /\ eng.pc = "GenerateSignals"
    /\ \E ch \in SignalChoices(eng.strategy, Truncated(price_data, Today(eng), run)) :
          eng' = StepGenerateSignals(eng, price_data, run, ch[1], ch[2])
    /\ UNCHANGED <<rm, call, price_data, run, twin, live, store>>

SimExecute ==
    /\ IsBacktest /\ eng.pc = "Execute"
    /\ eng' = StepExecute(eng, price_data)
    /\ UNCHANGED <<rm, call, price_data, run, twin, live, store>>

SimRecordEquity ==
    /\ IsBacktest /\ eng.pc = "RecordEquity"
    /\ eng' = StepRecordEquity(eng, price_data)
    /\ UNCHANGED <<rm, call, price_data, run, twin, live, store>>

RunEnd ==
    /\ IsBacktest /\ eng.pc = "End"
    /\ eng' = StepEnd(eng, price_data)
    /\ UNCHANGED <<rm, call, price_data, run, twin, live, store>>

Next ==
    \/ LiveUpdateEquity
    \/ LiveAddPosition
    \/ LiveRemovePosition
    \/ LiveSetKillSwitch
    \/ LiveCanOpenPosition
    \/ LiveGenerateSignals
    \/ ExecutorStart
    \/ ExecutorHandleSignal
    \/ RunStart
    \/ SimUpdatePrices
    \/ SimCheckStopLosses
    \/ SimGenerateSignals
    \/ SimExecute
    \/ SimRecordEquity
    \/ RunEnd

Spec == Init /\ [][Next]_vars

(***************************************************************************)
(* SpecTwin: two backtests side by side.  The second history is the first  *)
(* with every bar dated after twin.agree_until turned into an outlier.     *)
(* The strategy is a function of what it is handed: handed the same        *)
(* series on the same date, it answers the same in both runs.              *)
(***************************************************************************)
OutlierClose == 9 * 1000

WithOutliersAfter(pd, k) ==
    [c \in DOMAIN pd |->
        [i \in 1..Len(pd[c]) |->
            IF pd[c][i].date > k THEN [pd[c][i] EXCEPT !.close = OutlierClose]
            ELSE pd[c][i]]]

InitTwin ==
    /\ run \in [scenario : {"twin"}, strategy : {"generic"},
                start_date : {NoDate}, end_date : {NoDate},
                needs_ohlc : BOOLEAN, has_code_column : BOOLEAN,
                initial_capital : InitialCapitals]
    /\ ~(run.needs_ohlc /\ run.has_code_column)
    /\ price_data \in Histories
    /\ eng = NewEngine(GenericStrategy, run.initial_capital, FALSE)
    /\ \E k \in Dates :
          twin = [on |-> TRUE, agree_until |-> k,
                  price_data |-> WithOutliersAfter(price_data, k),
                  eng |-> NewEngine(GenericStrategy, run.initial_capital, FALSE)]
    /\ rm = NewRiskManager(FALSE, FALSE, NoAlloc)
    /\ call = NoCall
    /\ live = NewLive
    /\ store = NoStore

BothAt(pc) == eng.pc = pc /\ twin.eng.pc = pc

TwinRunStart ==
    /\ BothAt("Start")
    /\ eng' = StepStart(eng, price_data, run)
    /\ twin' = [twin EXCEPT !.eng = StepStart(@, twin.price_data, run)]
    /\ UNCHANGED <<rm, call, price_data, run, live, store>>

\* the comparison covers the days up to twin.agree_until
TwinUpdatePrices ==
    /\ BothAt("UpdatePrices")
    /\ Today(eng) <= twin.agree_until
    /\ eng' = StepUpdatePrices(eng, price_data)
    /\ twin' = [twin EXCEPT !.eng = StepUpdatePrices(@, twin.price_data)]
    /\ UNCHANGED <<rm, call, price_data, run, live, store>>

TwinCheckStopLosses ==
    /\ BothAt("CheckStopLosses")
    /\ eng' = StepCheckStopLosses(eng, price_data)
    /\ twin' = [twin EXCEPT !.eng = StepCheckStopLosses(@, twin.price_data)]
    /\ UNCHANGED <<rm, call, price_data, run, live, store>>

\* the two strategies' answers: one answer for both when they are handed the same
TwinChoices ==
    LET h1 == Truncated(price_data, Today(eng), run)
        h2 == Truncated(twin.price_data, Today(twin.eng), run)
    IN  IF h1 = h2 /\ Today(eng) = Today(twin.eng)
        THEN {<<ch, ch>> : ch \in SignalChoices(eng.strategy, h1)}
        ELSE SignalChoices(eng.strategy, h1) \X SignalChoices(twin.eng.strategy, h2)

TwinGenerateSignals ==
    /\ BothAt("GenerateSignals")
    /\ \E ch \in TwinChoices :
          /\ eng' = StepGenerateSignals(eng, price_data, run, ch[1][1], ch[1][2])
          /\ twin' = [twin EXCEPT !.eng =
                        StepGenerateSignals(@, twin.price_data, run, ch[2][1], ch[2][2])]
    /\ UNCHANGED <<rm, call, price_data, run, live, store>>

TwinExecute ==
    /\ BothAt("Execute")
    /\ eng' = StepExecute(eng, price_data)
    /\ twin' = [twin EXCEPT !.eng = StepExecute(@, twin.price_data)]
    /\ UNCHANGED <<rm, call, price_data, run, live, store>>

TwinRecordEquity ==
    /\ BothAt("RecordEquity")
    /\ eng' = StepRecordEquity(eng, price_data)
    /\ twin' = [twin EXCEPT !.eng = StepRecordEquity(@, twin.price_data)]
    /\ UNCHANGED <<rm, call, price_data, run, live, store>>

TwinRunEnd ==
    /\ BothAt("End")
    /\ eng' = StepEnd(eng, price_data)
    /\ twin' = [twin EXCEPT !.eng = StepEnd(@, twin.price_data)]
    /\ UNCHANGED <<rm, call, price_data, run, live, store>>

NextTwin ==
    \/ TwinRunStart
    \/ TwinUpdatePrices
    \/ TwinCheckStopLosses
    \/ TwinGenerateSignals
    \/ TwinExecute
    \/ TwinRecordEquity
    \/ TwinRunEnd

SpecTwin == InitTwin /\ [][NextTwin]_vars

(***************************************************************************)
(* SpecLadder: can_open_position as a function of the manager's state.     *)
(* The initial states draw a RiskManager (mode, kill switch, allocation,   *)
(* RiskState fields) from bounded sets; the action applies the function.   *)
(***************************************************************************)
LadderEquities == {0, 1000}
LadderCash == {0, 1000, 2000}
LadderDailyPnl == {0, -100}
LadderPeaks == {0, 1000, 2000}
LadderValues == {0, 50, 300}

LadderPosition(price, strategy) ==
    [code |-> "X", market |-> "KR", side |-> "LONG", quantity |-> 1,
     entry_price |-> 100, current_price |-> price, strategy |-> strategy]

LadderPositions ==
    {LadderPosition(100, "dual_momentum"), LadderPosition(100, "stat_arb"),
     LadderPosition(280, "stat_arb")}

\* Position lists of at most max_positions entries
LadderPositionLists ==
    UNION {[1..n -> LadderPositions] : n \in 0..max_positions}

InitLadder ==
    /\ rm \in [backtest_mode : BOOLEAN,
               kill_switch : BOOLEAN,
               strategy_allocation : LadderAllocations,
               state : [total_equity : LadderEquities,
                        cash : LadderCash,
                        daily_pnl : LadderDailyPnl,
                        peak_equity : LadderPeaks,
                        positions : LadderPositionLists]]
    /\ call = NoCall
    /\ price_data = [c \in Codes |-> <<>>]
    /\ twin = NoTwin
    /\ store = NoStore
    /\ live = NewLive
    /\ run = [scenario |-> "ladder", strategy |-> "generic",
              start_date |-> NoDate, end_date |-> NoDate,
              needs_ohlc |-> FALSE, has_code_column |-> FALSE,
              initial_capital |-> 1000]
    /\ eng = NewEngine(GenericStrategy, 1000, FALSE)

\* one call of can_open_position(code, market_value, strategy)
CallCanOpenPosition(mv, strategy) ==
    /\ call' = [made |-> TRUE, market_value |-> mv, strategy |-> strategy,
                result |-> CanOpenPosition(rm, mv, strategy)]
    /\ UNCHANGED <<rm, price_data, run, eng, twin, live, store>>

NextLadder ==
    \E mv \in LadderValues, strategy \in LadderStrategies :
        CallCanOpenPosition(mv, strategy)

SpecLadder == InitLadder /\ [][NextLadder]_vars

(***************************************************************************)
(* SpecSizing: calculate_position_size as a function of the manager's      *)
(* state, the price and the strategy.                                      *)
(***************************************************************************)
SizingEquities == {-1000, 0, 1000}
SizingCash == {0, 1000}
SizingPrices == {-100, 0, 10, 100}

InitSizing ==
    /\ rm \in [backtest_mode : {FALSE},
               kill_switch : {FALSE},
               strategy_allocation : LadderAllocations,
               state : [total_equity : SizingEquities,
                        cash : SizingCash,
                        daily_pnl : {0},
                        peak_equity : {1000},
                        positions : LadderPositionLists]]
    /\ call = NoCall
    /\ price_data = [c \in Codes |-> <<>>]
    /\ twin = NoTwin
    /\ store = NoStore
    /\ live = NewLive
    /\ run = [scenario |-> "sizing", strategy |-> "generic",
              start_date |-> NoDate, end_date |-> NoDate,
              needs_ohlc |-> FALSE, has_code_column |-> FALSE,
              initial_capital |-> 1000]
    /\ eng = NewEngine(GenericStrategy, 1000, FALSE)

\* one call of calculate_position_size(price, market, strategy)
CallCalculatePositionSize(price, strategy) ==
    /\ call' = [made |-> TRUE, price |-> price, strategy |-> strategy,
                result |-> CalculatePositionSize(rm, price, strategy)]
    /\ UNCHANGED <<rm, price_data, run, eng, twin, live, store>>

NextSizing ==
    \E price \in SizingPrices, strategy \in LadderStrategies :
        CallCalculatePositionSize(price, strategy)

SpecSizing == InitSizing /\ [][NextSizing]_vars

(***************************************************************************)
(* SpecSlice: the engine's per-run caches and the slices read from them,   *)
(* over every frame run(price_data) can be handed for instrument A: rows   *)
(* in any order, dates repeated or not.                                    *)
(***************************************************************************)
MaxRows == 3
SliceRows == [date : Dates, close : ClosesOf("A")]
SliceFrames == UNION {[1..n -> SliceRows] : n \in 0..MaxRows}

InitSlice ==
    /\ price_data \in [Codes -> SliceFrames]
    /\ price_data["B"] = <<>>
    /\ call = NoCall
    /\ rm = NewRiskManager(TRUE, FALSE, NoAlloc)
    /\ twin = NoTwin
    /\ store = NoStore
    /\ live = NewLive
    /\ run = [scenario |-> "slice", strategy |-> "generic",
              start_date |-> NoDate, end_date |-> NoDate,
              needs_ohlc |-> FALSE, has_code_column |-> FALSE,
              initial_capital |-> 1000]
    /\ eng = NewEngine(GenericStrategy, 1000, FALSE)

\* _get_prices_until(df, date) after run() built _price_series_cache
CallGetPricesUntil(code, date, has_code_column) ==
    /\ call' = [made |-> TRUE, op |-> "prices", code |-> code, date |-> date,
                result |-> GetPricesUntil(price_data[code], code, date,
                                          BuildPriceSeriesCache(price_data),
                                          has_code_column)]
    /\ UNCHANGED <<rm, price_data, run, eng, twin, live, store>>

\* _get_ohlc_until(df, code, date) after run() built _ohlc_dates_cache
CallGetOhlcUntil(code, date) ==
    /\ call' = [made |-> TRUE, op |-> "ohlc", code |-> code, date |-> date,
                result |-> GetOhlcUntil(price_data[code], code, date,
                                        BuildOhlcDatesCache(price_data))]
    /\ UNCHANGED <<rm, price_data, run, eng, twin, live, store>>

NextSlice ==
    \/ \E date \in Dates, has_code_column \in BOOLEAN :
          CallGetPricesUntil("A", date, has_code_column)
    \/ \E date \in Dates : CallGetOhlcUntil("A", date)

SpecSlice == InitSlice /\ [][NextSlice]_vars

(***************************************************************************)
(* A trading session: the process that owns an executor and its            *)
(* RiskManager, and the operator's switch calls on instances of their own  *)
(* that share the kill-switch file with it.                                *)
(***************************************************************************)
SessionEquities == {2000, 4000}
SessionCash == {4000}
SessionPrices == {50}

InitSession ==
    /\ store \in [file : {"absent", "active", "inactive"}, last_call : {""}]
    /\ \E read_ok \in BOOLEAN :
          rm = NewRiskManager(FALSE, LoadKillSwitch(store, read_ok), NoAlloc)
    /\ live = NewLive
    /\ call = NoCall
    /\ price_data = [c \in Codes |-> <<>>]
    /\ twin = NoTwin
    /\ run = [scenario |-> "session", strategy |-> "stat_arb",
              start_date |-> NoDate, end_date |-> NoDate,
              needs_ohlc |-> FALSE, has_code_column |-> FALSE,
              initial_capital |-> 1000]
    /\ eng = NewEngine(GenericStrategy, 1000, FALSE)

IsSession == run.scenario = "session"

\* the process starts again: AlgoTrader.__init__ builds a RiskManager from the
\* file and fresh strategies
SessionRestart ==
    /\ IsSession /\ live.phase = "idle"
    /\ \E read_ok \in BOOLEAN :
          rm' = NewRiskManager(FALSE, LoadKillSwitch(store, read_ok), NoAlloc)
    /\ live' = [NewLive EXCEPT !.last = [outcome |-> "constructed"]]
    /\ UNCHANGED <<call, price_data, run, eng, twin, store>>

\* update_equity(total_equity, cash) on the session's RiskManager
SessionUpdateEquity ==
    /\ IsSession /\ live.phase = "idle"
    /\ \E te \in SessionEquities, c \in SessionCash : rm' = UpdateEquity(rm, te, c)
    /\ live' = [live EXCEPT !.last = [outcome |-> "update_equity"]]
    /\ UNCHANGED <<call, price_data, run, eng, twin, store>>

\* update_prices(prices) on the session's RiskManager
SessionUpdatePrices ==
    /\ IsSession /\ live.phase = "idle" /\ rm.state.positions # <<>>
    /\ \E p \in SessionPrices :
          rm' = UpdatePrices(rm, [c \in {Pair.stock_a, Pair.stock_b, Pair.hedge_etf} |-> p])
    /\ live' = [live EXCEPT !.last = [outcome |-> "update_prices"]]
    /\ UNCHANGED <<call, price_data, run, eng, twin, store>>

\* bot_service.activate_kill_switch: RiskManager().activate_kill_switch(reason)
OperatorActivate ==
    /\ IsSession
    /\ \E write_ok \in BOOLEAN : store' = ActivateKillSwitchFile(store, write_ok)
    /\ UNCHANGED <<rm, call, price_data, run, eng, twin, live>>

\* bot_service.deactivate_kill_switch: RiskManager().deactivate_kill_switch()
OperatorDeactivate ==
    /\ IsSession
    /\ \E write_ok \in BOOLEAN : store' = DeactivateKillSwitchFile(store, write_ok)
    /\ UNCHANGED <<rm, call, price_data, run, eng, twin, live>>

NextSession ==
    \/ SessionRestart
    \/ SessionUpdateEquity
    \/ SessionUpdatePrices
    \/ OperatorActivate
    \/ OperatorDeactivate
    \/ LiveGenerateSignals
    \/ ExecutorStart
    \/ ExecutorHandleSignal

SpecSession == InitSession /\ [][NextSession]_vars

(***************************************************************************)
(* The six strategies on their own: any sequence of generate_signals and   *)
(* on_trade_executed calls on one instance.                                *)
(***************************************************************************)
Returns == {0, 5, 8}
\* the orders a dict or set of codes can be walked in: a dict in the order its
\* keys were inserted (part of the input), a set of str in the order the
\* process's string hashing gives (set_order)
Orders == {<<"A", "B", SafeAsset>>, <<SafeAsset, "B", "A">>}
\* the codes a scoring can rank, best first
Rankings ==
    {s \in UNION {[1..n -> Codes] : n \in 0..Cardinality(Codes)} :
        \A i, j \in 1..Len(s) : i # j => s[i] # s[j]}
SectorReturns == [Codes -> Returns] \cup {<<>>}
\* the dates of the last row handed to the breakout strategy
BreakoutDays == {1, 2}
OhlcBars ==
    {[rows |-> 1, prev_high |-> 0, prev_low |-> 0, open |-> 10, high |-> 10],
     [rows |-> 2, prev_high |-> 12, prev_low |-> 10, open |-> 10, high |-> 10],
     [rows |-> 2, prev_high |-> 12, prev_low |-> 10, open |-> 10, high |-> 12]}
OhlcData == [Codes -> OhlcBars] \cup {<<>>}
CurrentPrices == {<<>>, [c \in {"A"} |-> 12], [c \in Codes |-> IF c = "A" THEN 10 ELSE 12]}
Bands == UNION {[S -> {"short", "below", "inside", "above"}] : S \in SUBSET Codes}

NewStrategies ==
    {NewStatArb, NewDualMomentum, NewQuantFactor, NewSectorRotation,
     NewVolatilityBreakout, NewBollingerBand}

InitStrategies ==
    /\ live \in [strategy : NewStrategies, registered : {TRUE},
                 pending : {<<>>}, phase : {"idle"},
                 last : {[outcome |-> ""]}]
    /\ rm = NewRiskManager(FALSE, FALSE, NoAlloc)
    /\ call = NoCall
    /\ price_data = [c \in Codes |-> <<>>]
    /\ twin = NoTwin
    /\ store = NoStore
    /\ run = [scenario |-> "strategies", strategy |-> live.strategy.kind,
              start_date |-> NoDate, end_date |-> NoDate,
              needs_ohlc |-> FALSE, has_code_column |-> FALSE,
              initial_capital |-> 1000]
    /\ eng = NewEngine(GenericStrategy, 1000, FALSE)

\* what one generate_signals call on the instance can answer
GenerateChoices(st) ==
    CASE st.kind = "stat_arb" ->
             {[strategy |-> st, signals |-> StatArbGenerateSignals(st, c, z)] :
                 c \in BOOLEAN, z \in ZScores}
      [] st.kind = "dual_momentum" ->
             {DualMomentumGenerateSignals(st, h, kr, us) :
                 h \in BOOLEAN, kr \in Returns, us \in Returns}
      [] st.kind = "quant_factor" ->
             {QuantFactorGenerateSignals(st, r, w, o) :
                 r \in Rankings, w \in SUBSET Codes, o \in Orders}
      [] st.kind = "sector_rotation" ->
             {SectorRotationGenerateSignals(st, r, o, so) :
                 r \in SectorReturns, o \in Orders, so \in Orders}
      [] st.kind = "volatility_breakout" ->
             {VolatilityBreakoutGenerateSignals(st, d, oh, cp, t, o, so) :
                 d \in BreakoutDays, oh \in OhlcData, cp \in CurrentPrices,
                 t \in BOOLEAN, o \in Orders, so \in Orders}
      [] OTHER ->
             {BollingerBandGenerateSignals(st, b, o) : b \in Bands, o \in Orders}

\* strategy.generate_signals(**kwargs)
StrategyGenerateSignals ==
    /\ \E out \in GenerateChoices(live.strategy) :
          live' = [strategy |-> out.strategy, registered |-> TRUE,
                   pending |-> out.signals, phase |-> "idle",
                   last |-> [outcome |-> "generated"]]
    /\ UNCHANGED <<rm, call, price_data, run, eng, twin, store>>

\* the signals a caller can report on: those of the last call, and a plain BUY
\* or CLOSE of any instrument
CallbackSignals ==
    Range(live.pending) \cup
    {TradeSignal(NameOf(live.strategy), c, s, 0, 0, "", "", "") :
        c \in Codes, s \in {"BUY", "CLOSE"}}

\* strategy.on_trade_executed(signal, success)
StrategyOnTradeExecuted ==
    /\ \E sig \in CallbackSignals, success \in BOOLEAN :
          live' = [live EXCEPT !.strategy = OnTradeExecuted(@, sig, success),
                               !.last = [signal |-> sig, success |-> success,
                                         outcome |-> "callback"]]
    /\ UNCHANGED <<rm, call, price_data, run, eng, twin, store>>

NextStrategies ==
    \/ StrategyGenerateSignals
    \/ StrategyOnTradeExecuted

SpecStrategies == InitStrategies /\ [][NextStrategies]_vars

(***************************************************************************)
(* SpecReplay: the same strategy run twice, in two processes, on the same  *)
(* inputs and with the same on_trade_executed history.  What the two runs  *)
(* do not share is the order in which a set of str is walked, which        *)
(* follows the process's string hashing.  twin holds the second run.       *)
(***************************************************************************)
InitReplay ==
    /\ live \in [strategy : NewStrategies, registered : {TRUE},
                 pending : {<<>>}, phase : {"idle"},
                 last : {[outcome |-> ""]}]
    /\ twin = [on |-> TRUE, strategy |-> live.strategy, pending |-> <<>>]
    /\ rm = NewRiskManager(FALSE, FALSE, NoAlloc)
    /\ call = NoCall
    /\ price_data = [c \in Codes |-> <<>>]
    /\ store = NoStore
    /\ run = [scenario |-> "replay", strategy |-> live.strategy.kind,
              start_date |-> NoDate, end_date |-> NoDate,
              needs_ohlc |-> FALSE, has_code_column |-> FALSE,
              initial_capital |-> 1000]
    /\ eng = NewEngine(GenericStrategy, 1000, FALSE)

\* the order of the dict both runs are handed (an input, the same in both)
ReplayOrders == {<<"A", "B", SafeAsset>>}

\* what one generate_signals call answers in the two runs, handed the same
\* arguments: <<first run, second run>>
ReplayChoices(st1, st2) ==
    CASE st1.kind = "stat_arb" ->
             {<<[strategy |-> st1, signals |-> StatArbGenerateSignals(st1, c, z)],
                [strategy |-> st2, signals |-> StatArbGenerateSignals(st2, c, z)]>> :
                 c \in BOOLEAN, z \in ZScores}
      [] st1.kind = "dual_momentum" ->
             {<<DualMomentumGenerateSignals(st1, h, kr, us),
                DualMomentumGenerateSignals(st2, h, kr, us)>> :
                 h \in BOOLEAN, kr \in Returns, us \in Returns}
      [] st1.kind = "quant_factor" ->
             {<<QuantFactorGenerateSignals(st1, r, w, so1),
                QuantFactorGenerateSignals(st2, r, w, so2)>> :
                 r \in Rankings, w \in SUBSET Codes, so1 \in Orders, so2 \in Orders}
      [] st1.kind = "sector_rotation" ->
             {<<SectorRotationGenerateSignals(st1, r, o, so1),
                SectorRotationGenerateSignals(st2, r, o, so2)>> :
                 r \in SectorReturns, o \in ReplayOrders, so1 \in Orders, so2 \in Orders}
      [] st1.kind = "volatility_breakout" ->
             {<<VolatilityBreakoutGenerateSignals(st1, d, oh, cp, t, o, so1),
                VolatilityBreakoutGenerateSignals(st2, d, oh, cp, t, o, so2)>> :
                 d \in BreakoutDays, oh \in OhlcData, cp \in CurrentPrices,
                 t \in BOOLEAN, o \in ReplayOrders, so1 \in Orders, so2 \in Orders}
      [] OTHER ->
             {<<BollingerBandGenerateSignals(st1, b, o),
                BollingerBandGenerateSignals(st2, b, o)>> : b \in Bands, o \in ReplayOrders}

\* strategy.generate_signals(**kwargs), in both runs
ReplayGenerateSignals ==
    /\ \E out \in ReplayChoices(live.strategy, twin.strategy) :
          /\ live' = [live EXCEPT !.strategy = out[1].strategy,
                                  !.pending = out[1].signals,
                                  !.last = [outcome |-> "generated"]]
          /\ twin' = [twin EXCEPT !.strategy = out[2].strategy,
                                  !.pending = out[2].signals]
    /\ UNCHANGED <<rm, call, price_data, run, eng, store>>

\* strategy.on_trade_executed(signal, success), the same call in both runs
ReplayOnTradeExecuted ==
    /\ \E sig \in CallbackSignals, success \in BOOLEAN :
          /\ live' = [live EXCEPT !.strategy = OnTradeExecuted(@, sig, success),
                                  !.last = [signal |-> sig, success |-> success,
                                            outcome |-> "callback"]]
          /\ twin' = [twin EXCEPT !.strategy = OnTradeExecuted(@, sig, success)]
    /\ UNCHANGED <<rm, call, price_data, run, eng, store>>

NextReplay ==
    \/ ReplayGenerateSignals
    \/ ReplayOnTradeExecuted

SpecReplay == InitReplay /\ [][NextReplay]_vars

(***************************************************************************)
(* SpecPair: one StatArb strategy over its calls.  generate_signals is     *)
(* handed series of any length prepare_signal_kwargs lets through, and     *)
(* on_trade_executed reports the fills of the signals it returned.         *)
(* live.last keeps the arguments of the last call, live.tested_len the     *)
(* data length of the last cointegration test that ran (NoTest: none).     *)
(***************************************************************************)
NoTest == -1
PairLens == min_bars..(min_bars + 3)
PairPValues == {1, 50}
PairFits == {8, 12}
PairZ == {-40, -20, 0, 20, 40, NoZ}

InitPair ==
    /\ live = [strategy |-> NewStatArbPair, registered |-> TRUE,
               pending |-> <<>>, phase |-> "idle",
               last |-> [outcome |-> ""], tested_len |-> NoTest]
    /\ rm = NewRiskManager(FALSE, FALSE, NoAlloc)
    /\ call = NoCall
    /\ price_data = [c \in Codes |-> <<>>]
    /\ twin = NoTwin
    /\ store = NoStore
    /\ run = [scenario |-> "pair", strategy |-> "stat_arb",
              start_date |-> NoDate, end_date |-> NoDate,
              needs_ohlc |-> FALSE, has_code_column |-> FALSE,
              initial_capital |-> 1000]
    /\ eng = NewEngine(GenericStrategy, 1000, FALSE)

\* strategy.generate_signals(**prepare_signal_kwargs(price_data))
PairGenerateSignals ==
    /\ \E data_len \in PairLens, p_value \in PairPValues, fit \in PairFits, z \in PairZ :
          LET tested == ShouldRecalcCoint(live.strategy, Pair.name, data_len)
              out == StatArbAnalyzeAndGenerate(live.strategy, TRUE, data_len, p_value, fit, z)
          IN  live' = [live EXCEPT !.strategy = out.strategy,
                                   !.pending = out.signals,
                                   !.tested_len = IF tested THEN data_len ELSE @,
                                   !.last = [outcome |-> "generated", tested |-> tested,
                                             data_len |-> data_len, p_value |-> p_value,
                                             fit |-> fit, z |-> z]]
    /\ UNCHANGED <<rm, call, price_data, run, eng, twin, store>>

\* strategy.on_trade_executed(signal, success) for a signal of the last call
PairOnTradeExecuted ==
    /\ live.pending # <<>>
    /\ \E success \in BOOLEAN :
          live' = [live EXCEPT !.strategy = StatArbOnTradeExecuted(@, Head(live.pending), success),
                               !.pending = Tail(@),
                               !.last = [outcome |-> "callback", success |-> success,
                                         signal |-> Head(live.pending)]]
    /\ UNCHANGED <<rm, call, price_data, run, eng, twin, store>>

NextPair ==
    \/ PairGenerateSignals
    \/ PairOnTradeExecuted

SpecPair == InitPair /\ [][NextPair]_vars

(***************************************************************************)
(* PortfolioTracker: the simulation store (sim_portfolio's cash row and    *)
(* the sim_positions table, one row per code) and the calls that trade on  *)
(* it.  Prices are KRW (market KR, get_fx_rate 1).  Every read opens its   *)
(* own connection; the two writes of a trade share one transaction.        *)
(***************************************************************************)
NoPositions == [c \in {} |-> 0]

\* the store after set_initial_capital(amount)
NewTracker(amount) ==
    [file |-> "absent", last_call |-> "", cash |-> amount, positions |-> NoPositions]

\* execute_buy up to its cash test: [ok, new_cash, cost]
TrackerBuyCheck(cash, quantity, price) ==
    LET cost_krw == price * quantity
    IN  [ok |-> ~(cash < cost_krw), new_cash |-> cash - cost_krw, cost |-> cost_krw]

\* the transaction of execute_buy: the cash row, and the position row
\* inserted or, on a held code, replaced
TrackerBuyCommit(s, new_cash, code, quantity, price, strategy) ==
    [s EXCEPT !.cash = new_cash,
              !.positions = (code :> [market |-> "KR", side |-> "LONG",
                                      quantity |-> quantity, entry_price |-> price,
                                      current_price |-> price,
                                      strategy |-> strategy]) @@ @]

\* the transaction of execute_sell: the cash row, and the position row deleted
TrackerSellCommit(s, new_cash, code) ==
    [s EXCEPT !.cash = new_cash,
              !.positions = [c \in DOMAIN @ \ {code} |-> @[c]]]

\* execute_buy run by one caller alone
TrackerExecuteBuy(s, code, quantity, price, strategy) ==
    LET check == TrackerBuyCheck(s.cash, quantity, price)
    IN  IF check.ok
        THEN [ok |-> TRUE,
              store |-> TrackerBuyCommit(s, check.new_cash, code, quantity, price, strategy)]
        ELSE [ok |-> FALSE, store |-> s]

\* execute_sell run by one caller alone
TrackerExecuteSell(s, code, price) ==
    IF code \notin DOMAIN s.positions THEN [proceeds |-> 0, store |-> s]
    ELSE LET proceeds_krw == price * s.positions[code].quantity
         IN  [proceeds |-> proceeds_krw,
              store |-> TrackerSellCommit(s, s.cash + proceeds_krw, code)]

\* update_position_price for every row that has a quote (_update_sim_prices)
UpdateSimPrices(s, quotes) ==
    [s EXCEPT !.positions =
        [c \in DOMAIN @ |-> IF c \in DOMAIN quotes /\ quotes[c] > 0
                            THEN [@[c] EXCEPT !.current_price = quotes[c]]
                            ELSE @[c]]]

\* get_all_positions: the rows, in the order the table returns them
TrackerRows(s, order) ==
    LET codes == Enum(DOMAIN s.positions, order)
    IN  [i \in 1..Len(codes) |->
            [code |-> codes[i], market |-> s.positions[codes[i]].market,
             side |-> s.positions[codes[i]].side,
             quantity |-> s.positions[codes[i]].quantity,
             entry_price |-> s.positions[codes[i]].entry_price,
             current_price |-> s.positions[codes[i]].current_price,
             strategy |-> s.positions[codes[i]].strategy]]

\* sync_risk_manager: the manager's positions and equity read from the store
SyncRiskManager(r, s, order) ==
    LET positions == TrackerRows(s, order)
        total_equity == SumSeq([i \in 1..Len(positions) |-> market_value(positions[i])])
    IN  UpdateEquity([r EXCEPT !.state.positions = positions], total_equity, s.cash)

\* get_portfolio_summary()["total_value"]
TotalValue(s) ==
    LET rows == TrackerRows(s, <<"A", "B", SafeAsset>>)
    IN  s.cash + SumSeq([i \in 1..Len(rows) |-> market_value(rows[i])])

\* OrderExecutor._execute_buy with a PortfolioTracker in simulation mode
SimulationBuy(r, s, sig, price) ==
    LET quantity == IF sig.quantity > 0 THEN sig.quantity
                    ELSE CalculatePositionSize(r, price, sig.strategy)
        verdict == CanOpenPosition(r, price * quantity, sig.strategy)
        bought == TrackerExecuteBuy(s, sig.code, quantity, price, sig.strategy)
    IN  IF price <= 0 \/ quantity <= 0
        THEN [rm |-> r, store |-> s, outcome |-> "returned", why |-> "no_price"]
        ELSE IF verdict # Accept
        THEN [rm |-> r, store |-> s, outcome |-> "returned", why |-> verdict]
        ELSE IF ~bought.ok
        THEN [rm |-> r, store |-> s, outcome |-> "returned", why |-> "no_cash"]
        ELSE [rm |-> AddPosition(r,
                        [code |-> sig.code, market |-> sig.market, side |-> "LONG",
                         quantity |-> quantity, entry_price |-> price,
                         current_price |-> price, strategy |-> sig.strategy]),
              store |-> bought.store, outcome |-> "filled", why |-> ""]

\* OrderExecutor._execute_sell with a PortfolioTracker in simulation mode
SimulationSell(r, s, sig, price) ==
    LET matches == SelectSeq(r.state.positions, LAMBDA q : q.code = sig.code)
        quantity == IF matches = <<>> THEN 0 ELSE Head(matches).quantity
        sold == TrackerExecuteSell(s, sig.code, price)
    IN  IF quantity <= 0
        THEN [rm |-> r, store |-> s, outcome |-> "returned", why |-> "no_position"]
        ELSE IF sold.proceeds = 0
        THEN [rm |-> r, store |-> s, outcome |-> "returned", why |-> "no_row"]
        ELSE [rm |-> RemovePosition(r, sig.code), store |-> sold.store,
              outcome |-> "filled", why |-> ""]

\* execute_signals, step 3 in simulation mode: _execute_sell of each stop-loss
\* signal at the code's quote
RECURSIVE SimulationStopSells(_, _, _, _)
SimulationStopSells(r, s, sigs, quotes) ==
    IF sigs = <<>> THEN [rm |-> r, store |-> s]
    ELSE LET sold == SimulationSell(r, s, Head(sigs), quotes[Head(sigs).code])
         IN  SimulationStopSells(sold.rm, sold.store, Tail(sigs), quotes)

(***************************************************************************)
(* SpecTracker: run_once started by the scheduler's job and by the API's   *)
(* /run request, each with its own PortfolioTracker on the same database.  *)
(* call holds each caller's call in flight; run.bought and run.sold add up *)
(* the cost of the buys that returned True and the proceeds the sells      *)
(* returned.                                                               *)
(***************************************************************************)
Callers == {"scheduler", "api"}
MaxCalls == 2
TrackerCapital == 300
TrackerQuantities == {1, 2}
TrackerPrices == {100, 200}
Idle == [pc |-> "idle"]

InitTracker ==
    /\ store = NewTracker(TrackerCapital)
    /\ call = [c \in Callers |-> [pc |-> "idle", calls |-> 0]]
    /\ run = [scenario |-> "tracker", strategy |-> "generic",
              start_date |-> NoDate, end_date |-> NoDate,
              needs_ohlc |-> FALSE, has_code_column |-> FALSE,
              initial_capital |-> TrackerCapital, bought |-> 0, sold |-> 0]
    /\ rm = NewRiskManager(FALSE, FALSE, NoAlloc)
    /\ price_data = [c \in Codes |-> <<>>]
    /\ twin = NoTwin
    /\ live = NewLive
    /\ eng = NewEngine(GenericStrategy, 1000, FALSE)

Returned(c) == [pc |-> "idle", calls |-> call[c].calls + 1]

\* execute_buy, to the end of get_cash(): False when cash is short
TrackerBuyRead(c) ==
    /\ call[c].pc = "idle" /\ call[c].calls < MaxCalls
    /\ \E code \in Codes, quantity \in TrackerQuantities, price \in TrackerPrices :
          LET check == TrackerBuyCheck(store.cash, quantity, price)
          IN  call' = [call EXCEPT ![c] =
                         IF check.ok
                         THEN [pc |-> "buy_commit", calls |-> @.calls, code |-> code,
                               quantity |-> quantity, price |-> price,
                               cost |-> check.cost, new_cash |-> check.new_cash]
                         ELSE Returned(c)]
    /\ UNCHANGED <<rm, price_data, run, eng, twin, live, store>>

\* execute_buy, its transaction; returns True
TrackerBuyWrite(c) ==
    /\ call[c].pc = "buy_commit"
    /\ store' = TrackerBuyCommit(store, call[c].new_cash, call[c].code,
                                 call[c].quantity, call[c].price, "")
    /\ run' = [run EXCEPT !.bought = @ + call[c].cost]
    /\ call' = [call EXCEPT ![c] = Returned(c)]
    /\ UNCHANGED <<rm, price_data, eng, twin, live>>

\* execute_sell, to the end of get_position(): 0.0 when the code is not held
TrackerSellReadPosition(c) ==
    /\ call[c].pc = "idle" /\ call[c].calls < MaxCalls
    /\ \E code \in Codes, price \in TrackerPrices :
          call' = [call EXCEPT ![c] =
                     IF code \notin DOMAIN store.positions THEN Returned(c)
                     ELSE [pc |-> "sell_cash", calls |-> @.calls, code |-> code,
                           proceeds |-> price * store.positions[code].quantity]]
    /\ UNCHANGED <<rm, price_data, run, eng, twin, live, store>>

\* execute_sell, get_cash()
TrackerSellReadCash(c) ==
    /\ call[c].pc = "sell_cash"
    /\ call' = [call EXCEPT ![c] = [pc |-> "sell_commit", calls |-> @.calls,
                                    code |-> @.code, proceeds |-> @.proceeds,
                                    new_cash |-> store.cash + @.proceeds]]
    /\ UNCHANGED <<rm, price_data, run, eng, twin, live, store>>

\* execute_sell, its transaction; returns the proceeds
TrackerSellWrite(c) ==
    /\ call[c].pc = "sell_commit"
    /\ store' = TrackerSellCommit(store, call[c].new_cash, call[c].code)
    /\ run' = [run EXCEPT !.sold = @ + call[c].proceeds]
    /\ call' = [call EXCEPT ![c] = Returned(c)]
    /\ UNCHANGED <<rm, price_data, eng, twin, live>>

NextTracker ==
    \E c \in Callers :
        \/ TrackerBuyRead(c)
        \/ TrackerBuyWrite(c)
        \/ TrackerSellReadPosition(c)
        \/ TrackerSellReadCash(c)
        \/ TrackerSellWrite(c)

SpecTracker == InitTracker /\ [][NextTracker]_vars

(***************************************************************************)
(* SpecSimulation: run_once in simulation mode, one caller.  Each cycle    *)
(* builds a RiskManager, syncs it from the store, and hands the cycle's    *)
(* signals to execute_signals, which handles them one by one.  The         *)
(* executor of run_once is built without strategies: no fill callback.     *)
(***************************************************************************)
SimulationCapital == 10000
\* run_once calls of one behaviour
MaxCycles == 3
SimulationPrices == {50, 100}
SimulationQuotes == [Codes -> SimulationPrices]
SimulationSignals ==
    {TradeSignal("StatArb", c, sg, 0, 0, "", "", "") : c \in Codes, sg \in {"BUY", "SELL"}}
SimulationSignalLists == UNION {[1..n -> SimulationSignals] : n \in 0..MaxSignals}

InitSimulation ==
    /\ store = NewTracker(SimulationCapital)
    /\ rm = SyncRiskManager(NewRiskManager(FALSE, FALSE, NoAlloc), store, <<"A", "B", SafeAsset>>)
    /\ live = [strategy |-> NewStatArb, registered |-> FALSE, pending |-> <<>>,
               phase |-> "idle", last |-> [outcome |-> ""], cycles |-> 0]
    /\ call = NoCall
    /\ price_data = [c \in Codes |-> <<>>]
    /\ twin = NoTwin
    /\ run = [scenario |-> "simulation", strategy |-> "stat_arb",
              start_date |-> NoDate, end_date |-> NoDate,
              needs_ohlc |-> FALSE, has_code_column |-> FALSE,
              initial_capital |-> SimulationCapital]
    /\ eng = NewEngine(GenericStrategy, 1000, FALSE)

\* run_once up to the loop of execute_signals: a new RiskManager synced from
\* the store, the strategies' signals, the quotes written to the store, the
\* portfolio check and the stop-loss sells
SimulationRunOnce ==
    /\ live.phase = "idle" /\ live.cycles < MaxCycles
    /\ \E sigs \in SimulationSignalLists, quotes \in SimulationQuotes, order \in Orders :
          LET synced == SyncRiskManager(
                            NewRiskManager(FALSE, LoadKillSwitch(store, TRUE), NoAlloc),
                            store, order)
              priced == UpdateSimPrices(store, quotes)
              check == CheckPortfolioRisk(synced)
              stops == ScanStopLosses(synced)
              sold == SimulationStopSells(synced, priced, stops, quotes)
          IN  IF ~check.safe
              THEN /\ rm' = IF check.trip THEN ActivateKillSwitch(synced) ELSE synced
                   /\ store' = IF check.trip THEN ActivateKillSwitchFile(priced, TRUE)
                               ELSE priced
                   /\ live' = [live EXCEPT !.pending = <<>>, !.phase = "idle",
                                           !.cycles = @ + 1,
                                           !.last = [outcome |-> "halted"]]
              ELSE /\ rm' = sold.rm
                   /\ store' = sold.store
                   /\ live' = [live EXCEPT !.pending = sigs,
                                           !.cycles = @ + 1,
                                           !.phase = IF sigs = <<>> THEN "idle"
                                                     ELSE "executing",
                                           !.last = [outcome |-> "started",
                                                     stops |-> stops]]
    /\ UNCHANGED <<call, price_data, run, eng, twin>>

\* the body of execute_signals' loop for the next signal, at the quote `price`
SimulationHandleSignal ==
    /\ live.phase = "executing"
    /\ \E price \in SimulationPrices :
          LET sig == Head(live.pending)
              done == IF sig.signal = "BUY" THEN SimulationBuy(rm, store, sig, price)
                      ELSE SimulationSell(rm, store, sig, price)
          IN  /\ rm' = done.rm
              /\ store' = done.store
              /\ live' = [live EXCEPT !.pending = Tail(@),
                                      !.phase = IF Tail(live.pending) = <<>> THEN "idle"
                                                ELSE "executing",
                                      !.last = [signal |-> sig, outcome |-> done.outcome,
                                                why |-> done.why, price |-> price]]
    /\ UNCHANGED <<call, price_data, run, eng, twin>>

NextSimulation ==
    \/ SimulationRunOnce
    \/ SimulationHandleSignal

SpecSimulation == InitSimulation /\ [][NextSimulation]_vars

\* The checks of the fixed order that the state and the call's arguments violate
ViolatedChecks(r, mv, strategy) ==
    {i \in 1..7 :
        \/ i = 1 /\ KillSwitchHit(r)
        \/ i = 2 /\ DailyLossHit(r)
        \/ i = 3 /\ DrawdownHit(r)
        \/ i = 4 /\ PositionCountHit(r)
        \/ i = 5 /\ ConcentrationHit(r, mv)
        \/ i = 6 /\ CashBufferHit(r, mv)
        \/ i = 7 /\ BudgetHit(r, mv, strategy)}

MinOf(S) == CHOOSE i \in S : \A j \in S : i <= j

\* C1: in live mode, when two or more checks are violated at once, the reason
\* returned is that of the earliest violated check in the order kill switch,
\* daily loss, max drawdown, position count, concentration, cash buffer, budget.
C1_EarliestCheckWins ==
    (call.made /\ ~rm.backtest_mode) =>
        LET V == ViolatedChecks(rm, call.market_value, call.strategy)
        IN  Cardinality(V) >= 2 => call.result = RejectReasons[MinOf(V)]

\* a live call that fails concentration, cash buffer and budget together
C1_Witness ==
    /\ call.made /\ ~rm.backtest_mode
    /\ ViolatedChecks(rm, call.market_value, call.strategy) = {5, 6, 7}
    /\ call.result = "CONCENTRATION"

\* C2: in backtest mode the call skips kill switch, daily loss and drawdown,
\* still evaluates position count, concentration, cash buffer and budget, and
\* returns Accept or a rejection reason as a value, never an error.  Stated of
\* the call _execute_buy makes on the engine's own (backtest-mode) manager.
C2_BacktestReturnsValue ==
    (eng.risk_manager.backtest_mode /\ eng.risk_result # "") =>
        /\ eng.risk_result # Raised
        /\ eng.risk_result \in
              {Accept} \cup {RejectReasons[i] : i \in 4..7}

\* C3: the call returns Accept exactly when none of the seven reject conditions
\* holds, the concentration condition being proposed_value / total_equity >
\* max_position_pct and the cash-buffer condition (cash - proposed_value) /
\* total_equity < min_cash_pct, for every risk state, total equity 0 included
\* (the ratios are compared by cross-multiplication, which is defined at 0).
C3_AcceptIffNoCondition ==
    (call.made /\ ~rm.backtest_mode) =>
        LET mv == call.market_value
            te == rm.state.total_equity
            concentration == mv * 100 > max_position_pct * te
            cash_buffer == (rm.state.cash - mv) * 100 < min_cash_pct * te
            others == ViolatedChecks(rm, mv, call.strategy) \ {5, 6}
        IN  (call.result = Accept) <=> (others = {} /\ ~concentration /\ ~cash_buffer)

\* C4: across update_equity calls and simulated backtest days, end-of-run
\* liquidation included, peak_equity never decreases, neither in a live
\* manager nor in the manager a BacktestEngine owns.
C4_PeakNeverDecreases ==
    [][/\ rm'.state.peak_equity >= rm.state.peak_equity
       /\ eng'.risk_manager.state.peak_equity >= eng.risk_manager.state.peak_equity]_vars

\* update_equity has reported an equity below an earlier one and the peak stayed
C4_Witness ==
    /\ IsLive
    /\ rm.state.peak_equity = 1000
    /\ rm.state.total_equity = 500

\* C5: in every state reachable through BacktestEngine construction,
\* update_equity and the day loop, drawdown_pct is at most 0.
C5_DrawdownNeverPositive ==
    /\ DrawdownPctLeq(rm.state, 0)
    /\ DrawdownPctLeq(eng.risk_manager.state, 0)

\* update_equity has left the manager with a strictly negative drawdown
C5_Witness ==
    /\ IsLive
    /\ 0 < rm.state.total_equity
    /\ rm.state.total_equity < rm.state.peak_equity
    /\ ~DrawdownPctLeq(rm.state, -51)

\* the bars dated <= D of every frame, as the strategy is to receive them:
\* closes, or whole rows for a strategy that needs OHLC; empty series left out
ExactBars(pd, date, r) ==
    LET rows(c) == SelectSeq(pd[c], LAMBDA b : b.date <= date)
    IN  [c \in {c \in DOMAIN pd : rows(c) # <<>>} |->
            IF r.needs_ohlc THEN rows(c) ELSE Closes(rows(c))]

TradesUntil(e, k) == SelectSeq(e.trades, LAMBDA t : t.date <= k)

\* C7: no look-ahead.  On every simulated day D the series handed to
\* prepare_signal_kwargs are exactly the bars dated <= D, and two backtests
\* whose histories agree up to a date and differ after it generate the same
\* signals and book the same trades on every day up to that date.
C7_NoLookAhead ==
    /\ (eng.pc = "Execute" /\ ~eng.skipped) =>
            eng.handed = ExactBars(price_data, Today(eng), run)
    /\ (twin.eng.pc = "Execute" /\ ~twin.eng.skipped) =>
            twin.eng.handed = ExactBars(twin.price_data, Today(twin.eng), run)
    /\ TradesUntil(eng, twin.agree_until) = TradesUntil(twin.eng, twin.agree_until)
    /\ (eng.day > 0 /\ Today(eng) <= twin.agree_until) =>
            /\ twin.eng.day = eng.day /\ Today(twin.eng) = Today(eng)
            /\ twin.eng.pc = eng.pc
            /\ twin.eng.skipped = eng.skipped
            /\ twin.eng.signals = eng.signals
            /\ twin.eng.risk_result = eng.risk_result

\* signals generated on a day with later bars in the frame, those bars being
\* outliers in the second history
C7_Witness ==
    /\ eng.pc = "Execute" /\ ~eng.skipped /\ eng.signals # <<>>
    /\ Today(eng) = twin.agree_until
    /\ "A" \in DOMAIN eng.handed
    /\ Len(eng.handed["A"]) < Len(price_data["A"])
    /\ twin.price_data["A"] # price_data["A"]

FiveSteps ==
    <<"UpdatePrices", "CheckStopLosses", "GenerateSignals",
      "EnforceRiskAndExecute", "RecordEquity">>

StepsOf(e, date) ==
    LET logged == SelectSeq(e.steps, LAMBDA x : x[1] = date)
    IN  [i \in 1..Len(logged) |-> logged[i][2]]

IsPrefix(s, t) == Len(s) <= Len(t) /\ s = SubSeq(t, 1, Len(s))

PairPositionsOf(st) ==
    IF st.kind = "stat_arb"
    THEN {st.pair_states[n].position : n \in DOMAIN st.pair_states}
    ELSE {}

PositionOfPair(st) ==
    IF st.kind = "stat_arb" THEN st.pair_states[Pair.name].position ELSE "NONE"

\* C10: for every pair, position is always one of NONE, LONG_A, LONG_B, and
\* an entry signal that is rejected, skipped or otherwise not filled leaves
\* position = NONE: the position leaves NONE only in a step that fills a BUY
\* carrying that target, in live trading and in a backtest alike.
C10_StatArbSafety ==
    /\ [](PairPositionsOf(live.strategy) \cup PairPositionsOf(eng.strategy)
            \subseteq {"NONE", "LONG_A", "LONG_B"})
    /\ [][/\ (PositionOfPair(live.strategy) = "NONE"
              /\ PositionOfPair(live.strategy)' # "NONE")
             => /\ live'.last.outcome = "filled"
                /\ live'.last.signal.signal = "BUY"
                /\ live'.last.signal.target_position = PositionOfPair(live.strategy)'
          /\ (PositionOfPair(eng.strategy) = "NONE"
              /\ PositionOfPair(eng.strategy)' # "NONE")
             => /\ Len(eng'.trades) > Len(eng.trades)
                /\ eng'.trades[Len(eng'.trades)].side = "BUY"]_vars

\* an entry BUY whose order raised, the pair still flat
C10_Witness ==
    /\ IsTrading
    /\ live.last.outcome = "raised"
    /\ live.last.signal.signal = "BUY"
    /\ live.last.signal.target_position = "LONG_B"
    /\ PositionOfPair(live.strategy) = "NONE"

\* the position / holdings / allocation state of a strategy instance
PositionState(st) ==
    CASE st.kind = "stat_arb" -> [n \in DOMAIN st.pair_states |-> st.pair_states[n].position]
      [] st.kind = "dual_momentum" -> st.current_allocation
      [] st.kind = "generic" -> ""
      [] OTHER -> st.current_holdings

\* C11: for every strategy implementation, a generate_signals call leaves the
\* strategy's position / holdings / allocation state as it was.
C11_GenerateSignalsKeepsState ==
    [][live'.last.outcome = "generated"
         => PositionState(live'.strategy) = PositionState(live.strategy)]_vars

\* the state on_trade_executed keeps in step with fills
CallbackState(st) ==
    [position |-> PositionState(st),
     entered |-> IF st.kind = "volatility_breakout" THEN st.today_entered ELSE {}]

\* C13: for every strategy and every signal, on_trade_executed(signal,
\* success=False) leaves the holdings, the entered-today set, the allocation
\* and the pair position unchanged.
C13_FailedCallbackKeepsState ==
    [][(live'.last.outcome = "callback" /\ ~live'.last.success)
         => CallbackState(live'.strategy) = CallbackState(live.strategy)]_vars

\* a failed callback for a BUY of an instrument the strategy does not hold
C13_Witness ==
    /\ run.scenario = "strategies"
    /\ live.last.outcome = "callback" /\ ~live.last.success
    /\ live.last.signal.signal = "BUY"
    /\ live.strategy.kind = "volatility_breakout"
    /\ live.last.signal.code \notin live.strategy.current_holdings
    /\ live.last.signal.code \in DOMAIN live.strategy.today_targets

\* C12: when a BUY fails a risk check, the signal is dropped with no change to
\* the positions, the strategy's on_trade_executed is called with
\* success=False for it, and the rest of the batch is still processed.
C12_RiskRejectionNotifies ==
    [][(/\ live.registered
        /\ live'.last.outcome = "returned"
        /\ live'.last.why \in Range(RejectReasons)
        /\ live.phase = "executing"
        /\ live'.last.signal = Head(live.pending))
         => /\ rm' = rm
            /\ live'.pending = Tail(live.pending)
            /\ live'.last.callback = "failure"]_vars

\* the pair's entry for a high z-score and the exit of a LONG_B position
EntryPairB ==
    <<TradeSignal("StatArb", Pair.stock_b, "BUY", 0, 0, Pair.name, "LONG_B", ""),
      TradeSignal("StatArb", Pair.hedge_etf, "BUY", 0, 0, Pair.name, "", "hedge")>>
ExitPairB ==
    <<TradeSignal("StatArb", Pair.stock_b, "CLOSE", 0, 0, Pair.name, "", ""),
      TradeSignal("StatArb", Pair.hedge_etf, "CLOSE", 0, 0, Pair.name, "", "hedge")>>

\* a generate_signals step of the cycle
Generated == live.phase = "idle" /\ live'.phase = "generated"

\* C14: for a cointegrated pair whose fills succeed and are reported, a z-score
\* above entry_z makes a flat StatArb emit the entry pair (BUY B, BUY hedge),
\* whose fill makes the pair LONG_B; while LONG_B, with |z| never above stop_z,
\* no further entry is emitted and the first z-score under exit_z emits the exit
\* pair (CLOSE B, CLOSE hedge), whose fill makes the pair flat again; and a
\* day with exit_z <= |z| <= entry_z emits no signal.
C14_OneEntryThenOneExit ==
    [][/\ (Generated /\ live'.last.is_cointegrated /\ Abs(live'.last.z) <= stop_z)
          => LET z == live'.last.z
                 pos == PositionOfPair(live.strategy)
             IN  /\ (exit_z <= Abs(z) /\ Abs(z) <= entry_z) => live'.pending = <<>>
                 /\ (pos = "NONE" /\ z > entry_z) => live'.pending = EntryPairB
                 /\ (pos = "LONG_B" /\ Abs(z) >= exit_z) => live'.pending = <<>>
                 /\ (pos = "LONG_B" /\ Abs(z) < exit_z) => live'.pending = ExitPairB
                 /\ (pos = "NONE" /\ Abs(z) < exit_z) => live'.pending = <<>>
       /\ (/\ live.phase = "executing" /\ live.registered
           /\ live'.last.outcome = "filled"
           /\ live'.last.signal = Head(live.pending))
          => /\ Head(live.pending) = EntryPairB[1]
                => PositionOfPair(live'.strategy) = "LONG_B"
             /\ Head(live.pending) = ExitPairB[1]
                => PositionOfPair(live'.strategy) = "NONE"
             /\ Head(live.pending).role = "hedge"
                => PositionOfPair(live'.strategy) = PositionOfPair(live.strategy)]_vars

\* the hedge leg of the exit pair filled: the entry pair and the B leg of the
\* exit were filled before it, and the pair is flat with nothing held
C14_Witness ==
    /\ IsTrading /\ live.registered
    /\ live.last.outcome = "filled"
    /\ live.last.signal = ExitPairB[2]
    /\ PositionOfPair(live.strategy) = "NONE"
    /\ rm.state.positions = <<>>

\* C15: after activate_kill_switch returns, every RiskManager constructed
\* afterwards has is_killed true, and after deactivate_kill_switch returns
\* every RiskManager constructed afterwards has is_killed false.
C15_KillSwitchRoundTrip ==
    [][SessionRestart
         => /\ store.last_call = "activate" => rm'.kill_switch
            /\ store.last_call = "deactivate" => ~rm'.kill_switch]_vars

\* C16: while the persisted flag is active no BUY is accepted and no position
\* is opened, on any RiskManager instance, one built before the activation
\* included.
C16_NoOpenWhileFlagActive ==
    [][store.file = "active"
         => ~(/\ live.phase = "executing"
              /\ live'.last.outcome = "filled"
              /\ live'.last.signal = Head(live.pending)
              /\ live'.last.signal.signal = "BUY"
              /\ Len(rm'.state.positions) > Len(rm.state.positions))]_vars

\* C17: once the session's kill switch is active it stays active through every
\* step that is not a deactivate_kill_switch call: fills, update_equity, price
\* updates, the construction of a new RiskManager, failed reads and writes of
\* the file.
C17_KillSwitchStays ==
    [][(rm.kill_switch /\ ~OperatorDeactivate) => rm'.kill_switch]_vars

C19_BrokerFailureIsContained ==
    [][(/\ live.phase = "executing"
        /\ live'.last.outcome = "raised"
        /\ live'.last.signal = Head(live.pending))
         => /\ live'.last.callback = "failure"
            /\ live'.pending = Tail(live.pending)
            /\ live'.pending # <<>> => live'.phase = "executing"
            /\ rm' = rm
            /\ store' = store]_vars

\* C20: for a strategy with an allocation, the call rejects with the budget
\* reason whenever the strategy's open market value plus the proposed value
\* exceeds (total_equity + cash) x fraction and no other check's condition
\* holds; a strategy without an allocation is never rejected by this check.
C20_BudgetRejection ==
    call.made =>
        /\ ViolatedChecks(rm, call.market_value, call.strategy) = {7}
           => call.result = "STRATEGY_BUDGET"
        /\ ~HasBudget(rm, call.strategy) => call.result # "STRATEGY_BUDGET"

\* the same of live-mode calls only
LiveBudgetRejection ==
    (call.made /\ ~rm.backtest_mode) =>
        /\ ViolatedChecks(rm, call.market_value, call.strategy) = {7}
           => call.result = "STRATEGY_BUDGET"
        /\ ~HasBudget(rm, call.strategy) => call.result # "STRATEGY_BUDGET"

\* get_config_key of the strategy a signal names: the key of its settings
GetConfigKey(name) == IF name = "StatArb" THEN "stat_arb" ELSE name

\* C21: with per-strategy allocations configured, every BUY the executor books
\* for strategy s leaves the market value of s's open positions, at booking
\* time, within (total_equity + cash) x the fraction allocated to s.
C21_BookedBuyWithinBudget ==
    [][(/\ live.phase = "executing"
        /\ live'.last.outcome = "filled"
        /\ live'.last.signal = Head(live.pending)
        /\ Head(live.pending).signal = "BUY")
         => LET s == Head(live.pending).strategy
                key == GetConfigKey(s)
            IN  key \in DOMAIN rm.strategy_allocation
                   => StrategyUsed(rm', s) * 100
                        <= Total(rm') * rm.strategy_allocation[key]]_vars

\* the capital a sizing call works on, and its target notional times 1000
SizingCapital(r) == IF Total(r) = 0 THEN fallback_capital ELSE Total(r)
SizingTarget1000(r, capital, strategy) ==
    LET target == capital * max_position_pct * 8
        remaining ==
            IF StrategyBudget100(r, strategy) * 10 > StrategyUsed(r, strategy) * 1000
            THEN StrategyBudget100(r, strategy) * 10 - StrategyUsed(r, strategy) * 1000
            ELSE 0
    IN  IF HasBudget(r, strategy) /\ target > remaining THEN remaining ELSE target

\* q is floor(target / price) for a positive price, and 0 under a negative target
IsFloorOf(q, target1000, price) ==
    IF target1000 < 0 THEN q = 0
    ELSE q >= 0 /\ q * price * 1000 <= target1000 /\ target1000 < (q + 1) * price * 1000

\* C22 as stated: for a positive price the result is floor(T / price) with
\* T = total_equity x (max_position_pct / 100) x 0.8, reduced to the strategy's
\* remaining budget when it has an allocation and T exceeds it; never negative.
C22_SizeFromTotalEquity ==
    call.made =>
        /\ call.result >= 0
        /\ call.price > 0
             => IsFloorOf(call.result,
                          SizingTarget1000(rm, rm.state.total_equity, call.strategy),
                          call.price)

\* C22 as amended: the same with T = (total_equity + cash) x
\* (max_position_pct / 100) x 0.8, the configured initial capital standing in
\* for a sum of 0.
C22_SizeFromTotalCapital ==
    call.made =>
        /\ call.result >= 0
        /\ call.price > 0
             => IsFloorOf(call.result,
                          SizingTarget1000(rm, SizingCapital(rm), call.strategy),
                          call.price)

\* a size cut down to the strategy's remaining budget
C22_Witness ==
    /\ run.scenario = "sizing" /\ call.made /\ call.price > 0
    /\ HasBudget(rm, call.strategy)
    /\ SizingTarget1000(rm, SizingCapital(rm), call.strategy)
         < SizingCapital(rm) * max_position_pct * 8
    /\ call.result > 0

ShortCashBuy ==
    /\ IsBacktest /\ eng.pc = "Execute" /\ Len(eng.signals) = 1
    /\ LET sig == Head(eng.signals)
           day_prices == GetDayPrices(price_data, Today(eng))
       IN  /\ sig.signal = "BUY" /\ sig.price = 0 /\ sig.quantity > 0
           /\ sig.code \in DOMAIN day_prices
           /\ day_prices[sig.code] > 0
           /\ BuyPrice(day_prices[sig.code]) * sig.quantity
                + Commission(BuyPrice(day_prices[sig.code]) * sig.quantity) > eng.cash

\* floor(0.95 x cash / (fill price x (1 + commission_rate))) for that signal
ReducedQuantity ==
    LET exec_price ==
            BuyPrice(GetDayPrices(price_data, Today(eng))[Head(eng.signals).code])
    IN  CHOOSE q \in 0..eng.cash :
           /\ q * 100 * exec_price * (commission_rate.den + commission_rate.num)
                <= eng.cash * 95 * commission_rate.den
           /\ (q + 1) * 100 * exec_price * (commission_rate.den + commission_rate.num)
                > eng.cash * 95 * commission_rate.den

\* C29: when the full cost of a backtest BUY exceeds the cash, the quantity is
\* reduced to floor(0.95 x cash / (fill price x (1 + commission_rate))) and the
\* buy goes on with that quantity: the risk gate answers about it and, on
\* Accept, that quantity is booked; a reduced quantity of 0 leaves cash,
\* positions, mirror and ledger unchanged.
C29_ShortCashBuyIsReduced ==
    [][ShortCashBuy =>
         IF ReducedQuantity <= 0
         THEN /\ eng'.cash = eng.cash /\ eng'.positions = eng.positions
              /\ eng'.trades = eng.trades
              /\ eng'.risk_manager = eng.risk_manager
              /\ eng'.pc = "RecordEquity"
         ELSE /\ eng'.pc = "RecordEquity"
              /\ eng'.risk_result = Accept
                   => /\ Len(eng'.positions) = 1
                      /\ eng'.positions[1].quantity = ReducedQuantity]_vars

\* the first signal of the day is a SELL or CLOSE of an instrument not held
UnheldSellFirst ==
    /\ IsBacktest /\ eng.pc = "Execute" /\ eng.signals # <<>>
    /\ Head(eng.signals).signal \in {"SELL", "CLOSE"}
    /\ Head(eng.signals).code \notin HeldCodes(eng)

\* C30: a SELL or CLOSE for an instrument with no open position is dropped:
\* cash, positions, the RiskManager mirror and the ledger are unchanged by it,
\* and the rest of the day's signals is executed as if it had not been there.
C30_UnheldSellIsDropped ==
    [][UnheldSellFirst =>
         /\ (\A i \in 1..Len(eng.signals) : eng.signals[i].signal \in {"SELL", "CLOSE"})
               => /\ eng'.cash = eng.cash /\ eng'.positions = eng.positions
                  /\ eng'.trades = eng.trades
                  /\ eng'.risk_manager = eng.risk_manager
                  /\ eng'.pc = "RecordEquity"
         /\ [eng' EXCEPT !.signals = <<>>]
              = [StepExecute([eng EXCEPT !.signals = Tail(@)], price_data)
                    EXCEPT !.signals = <<>>]]_vars

\* a day whose CLOSE of a priced, unheld instrument was followed by a second
\* signal, the day's execution step completed
C30_Witness ==
    /\ IsBacktest /\ eng.pc = "RecordEquity"
    /\ Len(eng.signals) = 2
    /\ eng.signals[1].signal = "CLOSE"
    /\ eng.signals[1].code \in DOMAIN GetDayPrices(price_data, Today(eng))
    /\ eng.signals[1].code \notin HeldCodes(eng)
    /\ eng.trades = <<>> /\ eng.cash = run.initial_capital

\* C28: two runs of a strategy on identical inputs and with an identical
\* on_trade_executed history return the same ordered signal list from every
\* generate_signals call.
C28_SameSignalsInBothRuns ==
    (run.scenario = "replay" /\ twin.on) => live.pending = twin.pending

\* C32: for every frame and date D the cached binary-search slice of
\* _get_prices_until and of _get_ohlc_until is the rows with date <= D in
\* frame order, as the linear filter returns them, also for a frame that is
\* not sorted by date or that repeats a date.
C32_CachedSliceIsLinearFilter ==
    (run.scenario = "slice" /\ call.made) =>
        LET rows == RowsUntilLinear(price_data[call.code], call.date)
        IN  call.result = IF call.op = "prices" THEN Closes(rows) ELSE rows

\* C33: a call of analyze_pair runs the cointegration test exactly when no
\* test has run yet or the data length has grown by at least
\* recalc_beta_days since the last test; every such recheck, whatever its
\* outcome, refits beta; between rechecks beta, is_cointegrated and p_value
\* keep their values while current_z is recomputed.
PairStateOf(l) == l.strategy.pair_states[Pair.name]

C33_RecheckRefitsBeta ==
    [][(run.scenario = "pair" /\ live'.last.outcome = "generated") =>
          LET before == PairStateOf(live)
              after == PairStateOf(live')
              tested == live'.last.tested
              due == \/ live.tested_len = NoTest
                     \/ live'.last.data_len - live.tested_len >= recalc_beta_days
          IN  /\ tested <=> due
              /\ tested => after.beta = live'.last.fit
              /\ ~tested => /\ after.beta = before.beta
                            /\ after.is_cointegrated = before.is_cointegrated
                            /\ after.p_value = before.p_value
                            /\ live'.last.z # NoZ => after.current_z = live'.last.z]_vars

\* C34: a call of generate_signals that leaves the pair's is_cointegrated
\* flag false returns no signal for the pair, neither an entry nor an exit
\* nor a stop, also when the pair holds a position.
C34_NoSignalWhileNotCointegrated ==
    [][(/\ run.scenario = "pair"
        /\ live'.last.outcome = "generated"
        /\ ~PairStateOf(live').is_cointegrated) => live'.pending = <<>>]_vars

\* a held pair, found not cointegrated by a call whose z-score is beyond the
\* stop, with nothing returned
C34_Witness ==
    /\ run.scenario = "pair"
    /\ live.last.outcome = "generated"
    /\ PairStateOf(live).position # "NONE"
    /\ ~PairStateOf(live).is_cointegrated
    /\ Abs(PairStateOf(live).current_z) > stop_z
    /\ live.pending = <<>>

\* C38: whenever no execute_buy or execute_sell call is in flight, the
\* store's cash is the initial capital minus the cost of every buy that
\* returned True plus the proceeds every sell returned, however the calls
\* of the two callers interleaved; and the cash deduction of a buy and its
\* position row are written in one step.
Quiescent == \A c \in Callers : call[c].pc = "idle"

BuyWrittenTogether ==
    store'.cash < store.cash =>
        \E c \in Callers :
            /\ call[c].pc = "buy_commit"
            /\ call[c].code \in DOMAIN store'.positions
            /\ store'.positions[call[c].code].quantity = call[c].quantity
            /\ store'.positions[call[c].code].entry_price = call[c].price

C38_CashConserved ==
    /\ [](run.scenario = "tracker" /\ Quiescent =>
             store.cash = run.initial_capital - run.bought + run.sold)
    /\ [][run.scenario = "tracker" => BuyWrittenTogether]_vars

\* C39: in simulation-mode execution the RiskManager's positions and the
\* store's position rows hold the same codes, each once and with the same
\* quantity, after every executed BUY and SELL (a BUY of a held code
\* included), and an executed signal leaves the portfolio's total value
\* what it was with the traded code valued at the fill price.
ManagerCodes == {rm.state.positions[i].code : i \in 1..Len(rm.state.positions)}

ManagerMatchesStore ==
    /\ ManagerCodes = DOMAIN store.positions
    /\ \A i, j \in 1..Len(rm.state.positions) :
          rm.state.positions[i].code = rm.state.positions[j].code => i = j
    /\ \A i \in 1..Len(rm.state.positions) :
          rm.state.positions[i].quantity =
              store.positions[rm.state.positions[i].code].quantity

FillKeepsTotalValue ==
    (live.phase = "executing" /\ live'.last.outcome = "filled") =>
        LET code == live'.last.signal.code
            quotes == [c \in {code} |-> live'.last.price]
        IN  TotalValue(store') = TotalValue(UpdateSimPrices(store, quotes))

C39_ManagerAndStoreAgree ==
    /\ [](run.scenario = "simulation" => ManagerMatchesStore)
    /\ [][run.scenario = "simulation" => FillKeepsTotalValue]_vars

============================================================================
